---- MODULE Spec2Model ----
(***************************************************************************)
(* Naksh backend: the reaction, follow and message state operations, the   *)
(* error transformer, the async boundary wrapper and the error middleware.  *)
(* Every request is one task; each await on the storage layer is one       *)
(* atomic step, and the steps of different tasks interleave.               *)
(***************************************************************************)
EXTENDS Integers, Sequences, FiniteSets, TLC

(* ---- bounds ---- *)
NumProcs == 2
MaxClock == 3
MaxBulk == 2
MaxFlags == 2

Procs == 1..NumProcs

(* ---- identifiers ---- *)
NoId == "none"                      \* a missing / undefined request field
Users == {"u1", "u2", "u3"}         \* rows of the users table
GhostUser == "u9"                   \* an id with no user row
UserIds == Users \cup {GhostUser}

NoRow == [postId |-> NoId, userId |-> NoId, type |-> NoId]   \* null from a find

VARIABLES
  reactions,   \* set of [postId, userId, type]: @@id([postId, userId, type])
  follows,     \* set of <<followerId, followeeId>>: @@id([followerId, followeeId])
  messages,    \* message id -> [senderId, chatId, deliveredAt, readAt]
  clock,       \* the value new Date() returns
  pc,          \* per task: the await it is suspended at
  req,         \* per task: the request and the handler's locals
  env,         \* NODE_ENV
  err,         \* the error pipeline of one request: handler, wrapper, middleware
  flags,       \* set of [id, entityType, entityId, reporterId, status]: @id on id
  flagSeq,     \* number of moderation flags created so far (ids are fresh)
  rendered,    \* the body and status the last response helper call rendered
  chats,       \* chat id -> [lastMessageAt]: the committed chats rows
  sent,        \* committed message rows [id, chatId, senderId, createdAt] of send requests
  moderated,   \* [removed, suspended]: soft-deleted entities and suspended users
  checked      \* the outcome of the last validation helper call

vars == <<reactions, follows, messages, clock, pc, req, env, err, flags, flagSeq, rendered,
          chats, sent, moderated, checked>>

\* the chats table: chat c1, no message sent yet (lastMessageAt is null)
InitChats == [c \in {"c1"} |-> [lastMessageAt |-> 0]]
\* no post or comment soft-deleted by a moderator, no user suspended
NoModerated == [removed |-> {}, suspended |-> {}]
\* no validation helper called yet
NoChecked == [helper |-> "none", input |-> <<>>, threw |-> FALSE, class |-> "none",
              statusCode |-> 0, result |-> <<>>]

(* ---- request tasks ---- *)
IdleReq ==
  [op |-> "none", a |-> NoId, b |-> NoId, type |-> NoId, ids |-> <<>>,
   found |-> NoRow, now |-> 0, todo |-> {}, pre |-> {}, status |-> 0,
   result |-> "none"]

NewReq(op, a, b, type, ids, pre) ==
  [op |-> op, a |-> a, b |-> b, type |-> type, ids |-> ids,
   found |-> NoRow, now |-> 0, todo |-> {}, pre |-> pre, status |-> 0,
   result |-> "none"]

\* A request may be issued by task p: always when tasks run concurrently, and
\* only while every task is idle when requests are executed one after another.
MayStart(p, concurrent) ==
  /\ pc[p] = "idle"
  /\ concurrent \/ \A q \in Procs : pc[q] = "idle"

\* res.status(st).json(...) and return, the handler's locals being r
Reply(p, r, st, res) ==
  /\ pc' = [pc EXCEPT ![p] = "done"]
  /\ req' = [req EXCEPT ![p] = [r EXCEPT !.status = st, !.result = res]]

\* the handler suspends at its next await, its locals being r
Await(p, r, label) ==
  /\ pc' = [pc EXCEPT ![p] = label]
  /\ req' = [req EXCEPT ![p] = r]

\* The task ends; its slot serves the next request.
Finish(p) ==
  /\ pc[p] = "done"
  /\ pc' = [pc EXCEPT ![p] = "idle"]
  /\ req' = [req EXCEPT ![p] = IdleReq]
  /\ UNCHANGED <<reactions, follows, messages, clock, env, err, flags, flagSeq, rendered,
               chats, sent, moderated, checked>>

(* ======================= reactions ======================= *)
validTypes == {"LIKE", "LOL", "SAD", "LOVE", "ANGRY", "WOW"}

\* String.prototype.toUpperCase on the type strings requests carry
toUpperCase(t) ==
  CASE t = "like" -> "LIKE"
    [] t = "love" -> "LOVE"
    [] t = "bogus" -> "BOGUS"
    [] t = "post" -> "POST"
    [] t = "valid" -> "VALID"
    [] OTHER -> t

\* The posts table: p1 is live, p2 soft-deleted, p3 expired; p4 has no row.
PostIds == {"p1", "p2", "p3", "p4"}
PostStatus(postId) ==
  CASE postId = "p1" -> "live"
    [] postId = "p2" -> "deleted"
    [] postId = "p3" -> "expired"
    [] OTHER -> "missing"

Row(postId, userId, type) == [postId |-> postId, userId |-> userId, type |-> type]

\* reaction.findMany({ where: { postId, userId } })
PairRows(postId, userId) ==
  {r \in reactions : r.postId = postId /\ r.userId = userId}

\* reaction.findFirst({ where: { postId, userId } }): no orderBy, any matching row
FindFirstResults(postId, userId) ==
  IF PairRows(postId, userId) = {} THEN {NoRow} ELSE PairRows(postId, userId)

\* the request fields a reaction request is issued with
ReactPosts(concurrent) == IF concurrent THEN {"p1"} ELSE PostIds
ReactUsers(concurrent) == IF concurrent THEN {"u1"} ELSE {"u1", "u2", NoId}
ReactTypes(concurrent) ==
  IF concurrent THEN {"LIKE", "LOVE"} ELSE {"LIKE", "LOVE", "love", "BOGUS", NoId}

reactUnchanged == UNCHANGED <<follows, messages, clock, env, err, flags, flagSeq, rendered, chats, sent, moderated, checked>>

(* ---- POST /api/reactions (routes/reactions.js) ---- *)
RoutePostReaction(p, concurrent) ==
  /\ MayStart(p, concurrent)
  /\ \E postId \in ReactPosts(concurrent), userId \in ReactUsers(concurrent),
        type \in ReactTypes(concurrent) :
       LET r == NewReq("routeReact", postId, userId, type, <<>>, PairRows(postId, userId))
       IN IF postId = NoId \/ userId = NoId \/ type = NoId
            THEN Reply(p, r, 400, "error")
          ELSE IF type \notin validTypes
            THEN Reply(p, r, 400, "error")
          ELSE Await(p, r, "rp_post")
  /\ UNCHANGED reactions
  /\ reactUnchanged

RoutePostFindPost(p) ==
  /\ pc[p] = "rp_post"
  /\ IF PostStatus(req[p].a) \in {"missing", "deleted"}
       THEN Reply(p, req[p], 404, "error")
     ELSE IF PostStatus(req[p].a) = "expired"
       THEN Reply(p, req[p], 400, "error")
     ELSE Await(p, req[p], "rp_find")
  /\ UNCHANGED reactions
  /\ reactUnchanged

RoutePostFindFirst(p) ==
  /\ pc[p] = "rp_find"
  /\ \E existingReaction \in FindFirstResults(req[p].a, req[p].b) :
       Await(p, [req[p] EXCEPT !.found = existingReaction],
             IF existingReaction = NoRow THEN "rp_create" ELSE "rp_delete")
  /\ UNCHANGED reactions
  /\ reactUnchanged

\* RoutePostDelete with the delete of a reaction of another type left out
RoutePostDelete_KeepOld(p) ==
  /\ pc[p] = "rp_delete"
  /\ LET same == req[p].found.type = req[p].type
         key == Row(req[p].a, req[p].b, req[p].type)
     IN IF same /\ key \notin reactions
          THEN /\ Reply(p, req[p], 500, "error")
               /\ UNCHANGED reactions
        ELSE IF same
          THEN /\ reactions' = reactions \ {key}
               /\ Reply(p, req[p], 200, "removed")
        ELSE /\ UNCHANGED reactions
             /\ Await(p, req[p], "rp_create")
  /\ reactUnchanged

\* reaction.delete of the found row (or of the requested triple when the types
\* agree); a missing row is P2025, caught by the route's catch block
RoutePostDelete(p) ==
  /\ pc[p] = "rp_delete"
  /\ LET same == req[p].found.type = req[p].type
         key == IF same THEN Row(req[p].a, req[p].b, req[p].type) ELSE req[p].found
     IN IF key \notin reactions
          THEN /\ Reply(p, req[p], 500, "error")
               /\ UNCHANGED reactions
        ELSE /\ reactions' = reactions \ {key}
             /\ IF same THEN Reply(p, req[p], 200, "removed")
                ELSE Await(p, req[p], "rp_create")
  /\ reactUnchanged

\* reaction.create; an existing triple is P2002, caught by the route's catch block
RoutePostCreate(p) ==
  /\ pc[p] = "rp_create"
  /\ LET row == Row(req[p].a, req[p].b, req[p].type)
     IN IF row \in reactions
          THEN /\ Reply(p, req[p], 500, "error")
               /\ UNCHANGED reactions
        ELSE /\ reactions' = reactions \cup {row}
             /\ Reply(p, req[p], 201, "created")
  /\ reactUnchanged

(* ---- toggleReaction (reaction controller) ---- *)
ToggleReaction(p, concurrent) ==
  /\ MayStart(p, concurrent)
  /\ \E postId \in ReactPosts(concurrent), userId \in ReactUsers(concurrent),
        type \in ReactTypes(concurrent) :
       LET r == NewReq("toggle", postId, userId, type, <<>>, PairRows(postId, userId))
       IN IF userId = NoId
            THEN Reply(p, r, 401, "error")
          ELSE IF type = NoId \/ toUpperCase(type) \notin validTypes
            THEN Reply(p, r, 400, "error")
          ELSE Await(p, r, "tg_post")
  /\ UNCHANGED reactions
  /\ reactUnchanged

ToggleFindPost(p) ==
  /\ pc[p] = "tg_post"
  /\ IF PostStatus(req[p].a) = "missing"
       THEN Reply(p, req[p], 404, "error")
     ELSE Await(p, req[p], "tg_find")
  /\ UNCHANGED reactions
  /\ reactUnchanged

ToggleFindFirst(p) ==
  /\ pc[p] = "tg_find"
  /\ \E existingReaction \in FindFirstResults(req[p].a, req[p].b) :
       Await(p, [req[p] EXCEPT !.found = existingReaction],
             IF existingReaction = NoRow THEN "tg_create"
             ELSE IF existingReaction.type = toUpperCase(req[p].type) THEN "tg_delete"
             ELSE "tg_update")
  /\ UNCHANGED reactions
  /\ reactUnchanged

ToggleDelete(p) ==
  /\ pc[p] = "tg_delete"
  /\ LET key == Row(req[p].a, req[p].b, toUpperCase(req[p].type))
     IN IF key \notin reactions
          THEN /\ Reply(p, req[p], 500, "error")
               /\ UNCHANGED reactions
        ELSE /\ reactions' = reactions \ {key}
             /\ Reply(p, req[p], 200, "removed")
  /\ reactUnchanged

\* reaction.update of the found row to the new type: P2025 when the row is gone,
\* P2002 when the new triple exists already
ToggleUpdate(p) ==
  /\ pc[p] = "tg_update"
  /\ LET old == req[p].found
         new == Row(req[p].a, req[p].b, toUpperCase(req[p].type))
     IN IF old \notin reactions \/ new \in reactions
          THEN /\ Reply(p, req[p], 500, "error")
               /\ UNCHANGED reactions
        ELSE /\ reactions' = (reactions \ {old}) \cup {new}
             /\ Reply(p, req[p], 200, "updated")
  /\ reactUnchanged

ToggleCreate(p) ==
  /\ pc[p] = "tg_create"
  /\ LET row == Row(req[p].a, req[p].b, toUpperCase(req[p].type))
     IN IF row \in reactions
          THEN /\ Reply(p, req[p], 500, "error")
               /\ UNCHANGED reactions
        ELSE /\ reactions' = reactions \cup {row}
             /\ Reply(p, req[p], 201, "created")
  /\ reactUnchanged

(* ---- addReaction (reaction controller) ---- *)
AddReaction(p, concurrent) ==
  /\ MayStart(p, concurrent)
  /\ \E postId \in ReactPosts(concurrent), userId \in ReactUsers(concurrent),
        type \in ReactTypes(concurrent) :
       LET r == NewReq("add", postId, userId, type, <<>>, PairRows(postId, userId))
       IN IF userId = NoId
            THEN Reply(p, r, 401, "error")
          ELSE IF type = NoId \/ toUpperCase(type) \notin validTypes
            THEN Reply(p, r, 400, "error")
          ELSE Await(p, r, "ad_post")
  /\ UNCHANGED reactions
  /\ reactUnchanged

AddFindPost(p) ==
  /\ pc[p] = "ad_post"
  /\ IF PostStatus(req[p].a) = "missing"
       THEN Reply(p, req[p], 404, "error")
     ELSE Await(p, req[p], "ad_find")
  /\ UNCHANGED reactions
  /\ reactUnchanged

\* reaction.findUnique of the requested triple; 409 when it exists
AddFindUnique(p) ==
  /\ pc[p] = "ad_find"
  /\ IF Row(req[p].a, req[p].b, toUpperCase(req[p].type)) \in reactions
       THEN Reply(p, req[p], 409, "error")
     ELSE Await(p, req[p], "ad_deleteMany")
  /\ UNCHANGED reactions
  /\ reactUnchanged

AddDeleteMany(p) ==
  /\ pc[p] = "ad_deleteMany"
  /\ reactions' = reactions \ PairRows(req[p].a, req[p].b)
  /\ Await(p, req[p], "ad_create")
  /\ reactUnchanged

AddCreate(p) ==
  /\ pc[p] = "ad_create"
  /\ LET row == Row(req[p].a, req[p].b, toUpperCase(req[p].type))
     IN IF row \in reactions
          THEN /\ Reply(p, req[p], 500, "error")
               /\ UNCHANGED reactions
        ELSE /\ reactions' = reactions \cup {row}
             /\ Reply(p, req[p], 201, "created")
  /\ reactUnchanged

ReactionSteps(p) ==
  \/ RoutePostFindPost(p) \/ RoutePostFindFirst(p) \/ RoutePostDelete(p)
  \/ RoutePostCreate(p)
  \/ ToggleFindPost(p) \/ ToggleFindFirst(p) \/ ToggleDelete(p)
  \/ ToggleUpdate(p) \/ ToggleCreate(p)
  \/ AddFindPost(p) \/ AddFindUnique(p) \/ AddDeleteMany(p) \/ AddCreate(p)
  \/ Finish(p)

(* ======================= messages ======================= *)
NullAt == 0                          \* a null DateTime column; the clock starts at 1

\* The chats and their members: chat c1 has members u1 and u2; u3 is no member.
ChatMembers(chatId) == IF chatId = "c1" THEN {"u1", "u2"} ELSE {}

\* The messages table as the handlers find it: m1 was sent by u1 and m2 by u2,
\* both in chat c1, neither delivered nor read yet.
MsgIds == {"m1", "m2"}
GhostMsg == "m9"                     \* an id with no message row
InitMessages ==
  [m \in MsgIds |->
     [senderId |-> IF m = "m1" THEN "u1" ELSE "u2", chatId |-> "c1",
      deliveredAt |-> NullAt, readAt |-> NullAt]]

\* the request fields a message request is issued with
MsgTargets(concurrent) == IF concurrent THEN {"m1"} ELSE MsgIds \cup {GhostMsg}
MsgActors(concurrent) == IF concurrent THEN {"u1", "u2"} ELSE Users \cup {NoId}
MsgChats(concurrent) == IF concurrent THEN {"c1"} ELSE {"c1", "c2"}

\* the messages table as it is when a request is issued, kept for requests
\* executed one after another
MsgPre(concurrent) == IF concurrent THEN {} ELSE messages

msgUnchanged == UNCHANGED <<reactions, follows, env, err, flags, flagSeq, rendered, chats, sent, moderated, checked>>

\* Time passes: new Date() never goes back.
Tick ==
  /\ clock < MaxClock
  /\ clock' = clock + 1
  /\ UNCHANGED <<reactions, follows, messages, pc, req, env, err, flags, flagSeq, rendered, chats, sent, moderated, checked>>

(* ---- PUT /api/messages/:id/delivered (routes/messages.js) ---- *)
RouteDelivered(p, concurrent) ==
  /\ MayStart(p, concurrent)
  /\ \E id \in MsgTargets(concurrent), userId \in MsgActors(concurrent) :
       LET r == NewReq("routeDelivered", id, userId, NoId, <<>>, MsgPre(concurrent))
       IN IF userId = NoId THEN Reply(p, r, 400, "error")
          ELSE Await(p, r, "rd_find")
  /\ UNCHANGED <<messages, clock>>
  /\ msgUnchanged

RouteDeliveredFind(p) ==
  /\ pc[p] = "rd_find"
  /\ IF req[p].a \notin DOMAIN messages
       THEN Reply(p, req[p], 404, "error")
     ELSE Await(p, [req[p] EXCEPT !.found = messages[req[p].a]], "rd_member")
  /\ UNCHANGED <<messages, clock>>
  /\ msgUnchanged

\* chatMember.findUnique, the no-op test, and the new Date() of the update
RouteDeliveredMember(p) ==
  /\ pc[p] = "rd_member"
  /\ LET message == req[p].found
     IN IF req[p].b \notin ChatMembers(message.chatId)
          THEN Reply(p, req[p], 403, "error")
        ELSE IF message.deliveredAt # NullAt \/ message.senderId = req[p].b
          THEN Reply(p, req[p], 200, "noop")
        ELSE Await(p, [req[p] EXCEPT !.now = clock], "rd_update")
  /\ UNCHANGED <<messages, clock>>
  /\ msgUnchanged

RouteDeliveredUpdate(p) ==
  /\ pc[p] = "rd_update"
  /\ messages' = [messages EXCEPT ![req[p].a].deliveredAt = req[p].now]
  /\ Reply(p, req[p], 200, "updated")
  /\ UNCHANGED clock
  /\ msgUnchanged

(* ---- PUT /api/messages/:id/read (routes/messages.js) ---- *)
RouteRead(p, concurrent) ==
  /\ MayStart(p, concurrent)
  /\ \E id \in MsgTargets(concurrent), userId \in MsgActors(concurrent) :
       LET r == NewReq("routeRead", id, userId, NoId, <<>>, MsgPre(concurrent))
       IN IF userId = NoId THEN Reply(p, r, 400, "error")
          ELSE Await(p, r, "rr_find")
  /\ UNCHANGED <<messages, clock>>
  /\ msgUnchanged

RouteReadFind(p) ==
  /\ pc[p] = "rr_find"
  /\ IF req[p].a \notin DOMAIN messages
       THEN Reply(p, req[p], 404, "error")
     ELSE Await(p, [req[p] EXCEPT !.found = messages[req[p].a]], "rr_member")
  /\ UNCHANGED <<messages, clock>>
  /\ msgUnchanged

RouteReadMember(p) ==
  /\ pc[p] = "rr_member"
  /\ LET message == req[p].found
     IN IF req[p].b \notin ChatMembers(message.chatId)
          THEN Reply(p, req[p], 403, "error")
        ELSE IF message.readAt # NullAt \/ message.senderId = req[p].b
          THEN Reply(p, req[p], 200, "noop")
        ELSE Await(p, [req[p] EXCEPT !.now = clock], "rr_update")
  /\ UNCHANGED <<messages, clock>>
  /\ msgUnchanged

\* data: { readAt: now, ...(message.deliveredAt ? {} : { deliveredAt: now }) }
RouteReadUpdate(p) ==
  /\ pc[p] = "rr_update"
  /\ messages' =
       [messages EXCEPT ![req[p].a] =
          [@ EXCEPT !.readAt = req[p].now,
                    !.deliveredAt =
                      IF req[p].found.deliveredAt # NullAt THEN @ ELSE req[p].now]]
  /\ Reply(p, req[p], 200, "updated")
  /\ UNCHANGED clock
  /\ msgUnchanged

(* ---- markMessageAsDelivered (message controller) ---- *)
MarkMessageAsDelivered(p, concurrent) ==
  /\ MayStart(p, concurrent)
  /\ \E id \in MsgTargets(concurrent), userId \in MsgActors(concurrent) :
       LET r == NewReq("markDelivered", id, userId, NoId, <<>>, MsgPre(concurrent))
       IN IF userId = NoId THEN Reply(p, r, 401, "error")
          ELSE Await(p, r, "cd_find")
  /\ UNCHANGED <<messages, clock>>
  /\ msgUnchanged

MarkDeliveredFind(p) ==
  /\ pc[p] = "cd_find"
  /\ IF req[p].a \notin DOMAIN messages
       THEN Reply(p, req[p], 404, "error")
     ELSE Await(p, [req[p] EXCEPT !.found = messages[req[p].a]], "cd_check")
  /\ UNCHANGED <<messages, clock>>
  /\ msgUnchanged

\* the membership and sender tests and the new Date() of the update
MarkDeliveredCheck(p) ==
  /\ pc[p] = "cd_check"
  /\ LET message == req[p].found
     IN IF req[p].b \notin ChatMembers(message.chatId)
          THEN Reply(p, req[p], 403, "error")
        ELSE IF message.senderId = req[p].b
          THEN Reply(p, req[p], 400, "error")
        ELSE Await(p, [req[p] EXCEPT !.now = clock], "cd_update")
  /\ UNCHANGED <<messages, clock>>
  /\ msgUnchanged

MarkDeliveredUpdate(p) ==
  /\ pc[p] = "cd_update"
  /\ messages' = [messages EXCEPT ![req[p].a].deliveredAt = req[p].now]
  /\ Reply(p, req[p], 200, "updated")
  /\ UNCHANGED clock
  /\ msgUnchanged

(* ---- markMessageAsRead (message controller) ---- *)
MarkMessageAsRead(p, concurrent) ==
  /\ MayStart(p, concurrent)
  /\ \E id \in MsgTargets(concurrent), userId \in MsgActors(concurrent) :
       LET r == NewReq("markRead", id, userId, NoId, <<>>, MsgPre(concurrent))
       IN IF userId = NoId THEN Reply(p, r, 401, "error")
          ELSE Await(p, r, "cr_find")
  /\ UNCHANGED <<messages, clock>>
  /\ msgUnchanged

MarkReadFind(p) ==
  /\ pc[p] = "cr_find"
  /\ IF req[p].a \notin DOMAIN messages
       THEN Reply(p, req[p], 404, "error")
     ELSE Await(p, [req[p] EXCEPT !.found = messages[req[p].a]], "cr_check")
  /\ UNCHANGED <<messages, clock>>
  /\ msgUnchanged

MarkReadCheck(p) ==
  /\ pc[p] = "cr_check"
  /\ LET message == req[p].found
     IN IF req[p].b \notin ChatMembers(message.chatId)
          THEN Reply(p, req[p], 403, "error")
        ELSE IF message.senderId = req[p].b
          THEN Reply(p, req[p], 400, "error")
        ELSE Await(p, [req[p] EXCEPT !.now = clock], "cr_update")
  /\ UNCHANGED <<messages, clock>>
  /\ msgUnchanged

\* data: { readAt: now, deliveredAt: message.deliveredAt || now }
MarkReadUpdate(p) ==
  /\ pc[p] = "cr_update"
  /\ messages' =
       [messages EXCEPT ![req[p].a] =
          [@ EXCEPT !.readAt = req[p].now,
                    !.deliveredAt =
                      IF req[p].found.deliveredAt # NullAt
                        THEN req[p].found.deliveredAt ELSE req[p].now]]
  /\ Reply(p, req[p], 200, "updated")
  /\ UNCHANGED clock
  /\ msgUnchanged

(* ---- read-all: the route and markAllMessagesAsRead ---- *)
\* op is "routeReadAll" (400 without a user) or "markAllRead" (401 without one)
MarkAllRead(p, concurrent) ==
  /\ MayStart(p, concurrent)
  /\ \E op \in {"routeReadAll", "markAllRead"}, chatId \in MsgChats(concurrent),
        userId \in MsgActors(concurrent) :
       LET r == NewReq(op, chatId, userId, NoId, <<>>, MsgPre(concurrent))
       IN IF userId = NoId
            THEN Reply(p, r, IF op = "routeReadAll" THEN 400 ELSE 401, "error")
          ELSE Await(p, r, "ra_member")
  /\ UNCHANGED <<messages, clock>>
  /\ msgUnchanged

MarkAllReadMember(p) ==
  /\ pc[p] = "ra_member"
  /\ IF req[p].b \notin ChatMembers(req[p].a)
       THEN Reply(p, req[p], 403, "error")
     ELSE Await(p, [req[p] EXCEPT !.now = clock], "ra_update")
  /\ UNCHANGED <<messages, clock>>
  /\ msgUnchanged

\* message.updateMany({ where: { chatId, senderId: { not: userId }, readAt: null },
\*                      data: { readAt: now, deliveredAt: now } })
UpdateManyTargets(chatId, userId) ==
  {m \in DOMAIN messages :
     /\ messages[m].chatId = chatId
     /\ messages[m].senderId # userId
     /\ messages[m].readAt = NullAt}

MarkAllReadUpdate(p) ==
  /\ pc[p] = "ra_update"
  /\ LET hit == UpdateManyTargets(req[p].a, req[p].b)
     IN /\ messages' =
             [m \in DOMAIN messages |->
                IF m \in hit
                  THEN [messages[m] EXCEPT !.readAt = req[p].now,
                                           !.deliveredAt = req[p].now]
                  ELSE messages[m]]
        /\ Reply(p, [req[p] EXCEPT !.ids = <<Cardinality(hit)>>], 200, "updated")
  /\ UNCHANGED clock
  /\ msgUnchanged

MessageSteps(p) ==
  \/ RouteDeliveredFind(p) \/ RouteDeliveredMember(p) \/ RouteDeliveredUpdate(p)
  \/ RouteReadFind(p) \/ RouteReadMember(p) \/ RouteReadUpdate(p)
  \/ MarkDeliveredFind(p) \/ MarkDeliveredCheck(p) \/ MarkDeliveredUpdate(p)
  \/ MarkReadFind(p) \/ MarkReadCheck(p) \/ MarkReadUpdate(p)
  \/ MarkAllReadMember(p) \/ MarkAllReadUpdate(p)
  \/ Finish(p)

(* ======================= follows ======================= *)
MaxBulkFollow == 50

\* the request fields a follow request is issued with
FollowIds(concurrent) == IF concurrent THEN {"u1", "u2"} ELSE UserIds \cup {NoId}
FollowActors(concurrent) == IF concurrent THEN {"u1", "u2"} ELSE Users \cup {NoId}
\* req.body.userIds of a bulk follow: an array of at most MaxBulk ids
BulkLists(concurrent) ==
  UNION {[1..n -> (FollowIds(concurrent) \ {NoId})] : n \in 0..MaxBulk}

followUnchanged == UNCHANGED <<reactions, messages, clock, env, err, flags, flagSeq, rendered, chats, sent, moderated, checked>>

Range(seq) == {seq[i] : i \in DOMAIN seq}

(* ---- POST /api/follows (routes/follows.js) ---- *)
RouteFollow(p, concurrent) ==
  /\ MayStart(p, concurrent)
  /\ \E followerId \in FollowIds(concurrent), followeeId \in FollowIds(concurrent) :
       LET r == NewReq("routeFollow", followerId, followeeId, NoId, <<>>, follows)
       IN IF followerId = NoId \/ followeeId = NoId
            THEN Reply(p, r, 400, "error")
          ELSE IF followerId = followeeId
            THEN Reply(p, r, 400, "error")
          ELSE Await(p, r, "rf_users")
  /\ UNCHANGED follows
  /\ followUnchanged

\* Promise.all of the two user.findUnique
RouteFollowUsers(p) ==
  /\ pc[p] = "rf_users"
  /\ IF req[p].a \notin Users THEN Reply(p, req[p], 404, "error")
     ELSE IF req[p].b \notin Users THEN Reply(p, req[p], 404, "error")
     ELSE Await(p, req[p], "rf_find")
  /\ UNCHANGED follows
  /\ followUnchanged

\* RouteFollowFind without the "already following" answer
RouteFollowFind_NoConflict(p) ==
  /\ pc[p] = "rf_find"
  /\ Await(p, req[p], "rf_create")
  /\ UNCHANGED follows
  /\ followUnchanged

RouteFollowFind(p) ==
  /\ pc[p] = "rf_find"
  /\ IF <<req[p].a, req[p].b>> \in follows
       THEN Reply(p, req[p], 409, "error")
     ELSE Await(p, req[p], "rf_create")
  /\ UNCHANGED follows
  /\ followUnchanged

\* follow.create; an existing pair is P2002, caught by the route's catch block
RouteFollowCreate(p) ==
  /\ pc[p] = "rf_create"
  /\ IF <<req[p].a, req[p].b>> \in follows
       THEN /\ Reply(p, req[p], 500, "error")
            /\ UNCHANGED follows
     ELSE /\ follows' = follows \cup {<<req[p].a, req[p].b>>}
          /\ Reply(p, req[p], 201, "created")
  /\ followUnchanged

(* ---- DELETE /api/follows (routes/follows.js) ---- *)
RouteUnfollow(p, concurrent) ==
  /\ MayStart(p, concurrent)
  /\ \E followerId \in FollowIds(concurrent), followeeId \in FollowIds(concurrent) :
       LET r == NewReq("routeUnfollow", followerId, followeeId, NoId, <<>>, follows)
       IN IF followerId = NoId \/ followeeId = NoId
            THEN Reply(p, r, 400, "error")
          ELSE Await(p, r, "ru_delete")
  /\ UNCHANGED follows
  /\ followUnchanged

\* RouteUnfollowDelete answering 204 whether or not a row was deleted
RouteUnfollowDelete_Silent(p) ==
  /\ pc[p] = "ru_delete"
  /\ follows' = follows \ {<<req[p].a, req[p].b>>}
  /\ Reply(p, req[p], 204, "removed")
  /\ followUnchanged

\* follow.delete; a missing pair is P2025, answered 404 by the catch block
RouteUnfollowDelete(p) ==
  /\ pc[p] = "ru_delete"
  /\ IF <<req[p].a, req[p].b>> \notin follows
       THEN /\ Reply(p, req[p], 404, "error")
            /\ UNCHANGED follows
     ELSE /\ follows' = follows \ {<<req[p].a, req[p].b>>}
          /\ Reply(p, req[p], 204, "removed")
  /\ followUnchanged

(* ---- followUser (follow controller) ---- *)
FollowUser(p, concurrent) ==
  /\ MayStart(p, concurrent)
  /\ \E followerId \in FollowActors(concurrent),
        userId \in FollowIds(concurrent) \ {NoId} :
       LET r == NewReq("followUser", followerId, userId, NoId, <<>>, follows)
       IN IF followerId = NoId THEN Reply(p, r, 401, "error")
          ELSE IF followerId = userId THEN Reply(p, r, 400, "error")
          ELSE Await(p, r, "cf_user")
  /\ UNCHANGED follows
  /\ followUnchanged

FollowUserFindUser(p) ==
  /\ pc[p] = "cf_user"
  /\ IF req[p].b \notin Users THEN Reply(p, req[p], 404, "error")
     ELSE Await(p, req[p], "cf_find")
  /\ UNCHANGED follows
  /\ followUnchanged

FollowUserFind(p) ==
  /\ pc[p] = "cf_find"
  /\ IF <<req[p].a, req[p].b>> \in follows
       THEN Reply(p, req[p], 409, "error")
     ELSE Await(p, req[p], "cf_create")
  /\ UNCHANGED follows
  /\ followUnchanged

FollowUserCreate(p) ==
  /\ pc[p] = "cf_create"
  /\ IF <<req[p].a, req[p].b>> \in follows
       THEN /\ Reply(p, req[p], 500, "error")
            /\ UNCHANGED follows
     ELSE /\ follows' = follows \cup {<<req[p].a, req[p].b>>}
          /\ Reply(p, req[p], 201, "created")
  /\ followUnchanged

(* ---- unfollowUser (follow controller) ---- *)
UnfollowUser(p, concurrent) ==
  /\ MayStart(p, concurrent)
  /\ \E followerId \in FollowActors(concurrent),
        userId \in FollowIds(concurrent) \ {NoId} :
       LET r == NewReq("unfollowUser", followerId, userId, NoId, <<>>, follows)
       IN IF followerId = NoId THEN Reply(p, r, 401, "error")
          ELSE Await(p, r, "cu_find")
  /\ UNCHANGED follows
  /\ followUnchanged

UnfollowUserFind(p) ==
  /\ pc[p] = "cu_find"
  /\ IF <<req[p].a, req[p].b>> \notin follows
       THEN Reply(p, req[p], 404, "error")
     ELSE Await(p, req[p], "cu_delete")
  /\ UNCHANGED follows
  /\ followUnchanged

\* follow.delete; a pair deleted since the find is P2025, answered 500
UnfollowUserDelete(p) ==
  /\ pc[p] = "cu_delete"
  /\ IF <<req[p].a, req[p].b>> \notin follows
       THEN /\ Reply(p, req[p], 500, "error")
            /\ UNCHANGED follows
     ELSE /\ follows' = follows \ {<<req[p].a, req[p].b>>}
          /\ Reply(p, req[p], 200, "removed")
  /\ followUnchanged

(* ---- bulkFollowUsers (follow controller) ---- *)
\* validUserIds with the current user left in the list
ValidUserIds_KeepSelf(userIds, followerId) == Range(userIds)

\* [...new Set(userIds.filter(id => id !== followerId))]
ValidUserIds(userIds, followerId) == {id \in Range(userIds) : id # followerId}

BulkFollowUsers(p, concurrent) ==
  /\ MayStart(p, concurrent)
  /\ \E followerId \in FollowActors(concurrent), userIds \in BulkLists(concurrent) :
       LET r == NewReq("bulkFollow", followerId, NoId, NoId, userIds, follows)
       IN IF followerId = NoId THEN Reply(p, r, 401, "error")
          ELSE IF Len(userIds) = 0 THEN Reply(p, r, 400, "error")
          ELSE IF Len(userIds) > MaxBulkFollow THEN Reply(p, r, 400, "error")
          ELSE IF ValidUserIds(userIds, followerId) = {}
            THEN Reply(p, r, 400, "error")
          ELSE Await(p, [r EXCEPT !.todo = ValidUserIds(userIds, followerId)],
                     "bf_users")
  /\ UNCHANGED follows
  /\ followUnchanged

\* user.findMany({ where: { id: { in: validUserIds } } })
BulkFollowFindUsers(p) ==
  /\ pc[p] = "bf_users"
  /\ Await(p, [req[p] EXCEPT !.todo = req[p].todo \cap Users], "bf_follows")
  /\ UNCHANGED follows
  /\ followUnchanged

\* follow.findMany of the pairs that exist; usersToFollow is the rest
BulkFollowFindFollows(p) ==
  /\ pc[p] = "bf_follows"
  /\ LET usersToFollow == {id \in req[p].todo : <<req[p].a, id>> \notin follows}
     IN IF usersToFollow = {} THEN Reply(p, req[p], 409, "error")
        ELSE Await(p, [req[p] EXCEPT !.todo = usersToFollow], "bf_create")
  /\ UNCHANGED follows
  /\ followUnchanged

\* follow.createMany: one insert, P2002 for the whole batch when a pair exists
BulkFollowCreate(p) ==
  /\ pc[p] = "bf_create"
  /\ LET followData == {<<req[p].a, id>> : id \in req[p].todo}
     IN IF followData \cap follows # {}
          THEN /\ Reply(p, req[p], 500, "error")
               /\ UNCHANGED follows
        ELSE /\ follows' = follows \cup followData
             /\ Reply(p, req[p], 201, "created")
  /\ followUnchanged

FollowSteps(p) ==
  \/ RouteFollowUsers(p) \/ RouteFollowFind(p) \/ RouteFollowCreate(p)
  \/ RouteUnfollowDelete(p)
  \/ FollowUserFindUser(p) \/ FollowUserFind(p) \/ FollowUserCreate(p)
  \/ UnfollowUserFind(p) \/ UnfollowUserDelete(p)
  \/ BulkFollowFindUsers(p) \/ BulkFollowFindFollows(p) \/ BulkFollowCreate(p)
  \/ Finish(p)

(* ======================= error taxonomy and transformer ======================= *)
\* Strings are sequences of pieces, so that a template literal is a
\* concatenation; the empty sequence is undefined (or ''), both falsy.
Absent == <<>>
NoCode == "null"                     \* code = null
NoStatus == 0                        \* status / http_code undefined (or 0): falsy
NoDetails == [present |-> FALSE, constraint |-> "none", field |-> <<>>]

\* new APIError(message, statusCode, code, details): isOperational is always true
APIError(class, message, statusCode, code, details) ==
  [threw |-> FALSE, class |-> class, message |-> message, statusCode |-> statusCode,
   code |-> code, details |-> details, isOperational |-> TRUE]

ValidationError(message, details) ==
  APIError("ValidationError", message, 400, "VALIDATION_ERROR", details)
AuthenticationError(message) ==
  APIError("AuthenticationError", message, 401, "AUTHENTICATION_ERROR", NoDetails)
AuthorizationError(message) ==
  APIError("AuthorizationError", message, 403, "AUTHORIZATION_ERROR", NoDetails)
NotFoundError(resource) ==
  APIError("NotFoundError", <<resource, " not found">>, 404, "NOT_FOUND_ERROR",
           NoDetails)
ConflictError(message, details) ==
  APIError("ConflictError", message, 409, "CONFLICT_ERROR", details)
DatabaseError(message) ==
  APIError("DatabaseError", message, 500, "DATABASE_ERROR", NoDetails)
ExternalServiceError(service, message) ==
  APIError("ExternalServiceError", <<service, ": ">> \o message, 502,
           "EXTERNAL_SERVICE_ERROR", NoDetails)

\* A TypeError raised inside the transformer: it returns nothing.
Threw ==
  [threw |-> TRUE, class |-> "TypeError", message |-> Absent, statusCode |-> NoStatus,
   code |-> NoCode, details |-> NoDetails, isOperational |-> FALSE]

\* The values a handler can throw or reject with. kind is null, undefined,
\* object (an Error or any other object; a primitive reads like an object with
\* no property) or APIError (an instance, api being the taxonomy error).
\* meta is meta.target (P2002) or meta.field_name, an array of names.
BaseError ==
  [kind |-> "object", api |-> Threw, code |-> NoCode, meta |-> <<>>,
   status |-> NoStatus, message |-> Absent, clerkError |-> FALSE,
   http_code |-> NoStatus, name |-> "Error", isJoi |-> FALSE,
   details |-> "none", errors |-> "none"]

Messages == {<<"boom">>, <<"secret">>}
PrismaCodes == {"P2002", "P2025", "P2003", "P2014", "P2016", "P2020", "P2021",
                "P2022", "P2024"}
\* code: a Prisma code, a Node system code, or a number (a driver's numeric code)
NumericCode == "#11000"
Codes == PrismaCodes \cup {"ECONNREFUSED", NumericCode}
\* details of a validation-library error: an array whose entries have a path
\* array, an array with an entry without one, or a value that is no array
DetailShapes == {"paths", "nopath", "object"}

ThrownAPIErrors ==
  {ValidationError(<<"Username is required">>, NoDetails),
   AuthenticationError(<<"Authentication required">>),
   NotFoundError("User"),
   ConflictError(<<"Username already taken">>, NoDetails)}

RawErrors ==
  {[BaseError EXCEPT !.kind = k] : k \in {"null", "undefined"}}
  \cup {[BaseError EXCEPT !.kind = "APIError", !.api = e] : e \in ThrownAPIErrors}
  \cup {[BaseError EXCEPT !.message = m, !.name = n, !.code = c, !.status = st,
                          !.http_code = h] :
          m \in Messages \cup {Absent}, n \in {"Error", "MongoError"},
          c \in {NoCode, "P2002", "ECONNREFUSED", NumericCode},
          st \in {NoStatus, 401, 403, 302}, h \in {NoStatus, 400}}
  \cup {[BaseError EXCEPT !.code = c, !.meta = t, !.message = <<"boom">>] :
          c \in PrismaCodes, t \in {<<>>, <<"username">>, <<"postId", "userId">>}}
  \cup {[BaseError EXCEPT !.clerkError = TRUE, !.status = st, !.message = m] :
          st \in {NoStatus, 401, 403, 302}, m \in Messages \cup {Absent}}
  \cup {[BaseError EXCEPT !.http_code = h, !.message = m] :
          h \in {400, 401, 413, 500}, m \in Messages}
  \cup {[BaseError EXCEPT !.isJoi = j, !.name = n, !.details = d, !.errors = es,
                          !.message = <<"boom">>] :
          j \in BOOLEAN, n \in {"Error", "ValidationError"},
          d \in DetailShapes \cup {"none"}, es \in {"none", "array"}}

\* typeof code === 'string', and code.startsWith('P')
IsString(code) == code \in Codes \ {NumericCode}
startsWithP(code) == code \in PrismaCodes

\* Array.prototype.join(', ')
RECURSIVE Join(_)
Join(names) ==
  IF Len(names) <= 1 THEN names ELSE <<names[1], ", ">> \o Join(Tail(names))

\* meta.target || ['field'], joined
TargetField(meta) == IF meta = <<>> THEN <<"field">> ELSE Join(meta)

transformPrismaError(error) ==
  CASE error.code = "P2002" ->
         ConflictError(TargetField(error.meta) \o <<" already exists">>,
                       [present |-> TRUE, constraint |-> "unique",
                        field |-> TargetField(error.meta)])
    [] error.code = "P2025" -> NotFoundError("Record")
    [] error.code = "P2003" ->
         ValidationError(<<"Invalid reference to related record">>,
                         [present |-> TRUE, constraint |-> "foreign_key",
                          field |-> error.meta])
    [] error.code = "P2014" ->
         ValidationError(<<"Invalid ID provided">>,
                         [present |-> TRUE, constraint |-> "none", field |-> error.meta])
    [] error.code = "P2016" ->
         ValidationError(<<"Query validation failed">>,
                         [present |-> TRUE, constraint |-> "none", field |-> <<>>])
    [] error.code = "P2020" ->
         ValidationError(<<"Value out of range">>,
                         [present |-> TRUE, constraint |-> "none", field |-> error.meta])
    [] error.code = "P2021" -> DatabaseError(<<"Table does not exist">>)
    [] error.code = "P2024" -> DatabaseError(<<"Connection pool timeout">>)
    [] OTHER -> DatabaseError(<<"Database operation failed">>)

PerFieldDetails == [present |-> TRUE, constraint |-> "perField", field |-> <<>>]

\* detail.path.join('.') is a TypeError on an entry without a path
transformValidationError(error) ==
  IF error.details \in {"paths", "nopath"}
    THEN IF error.details = "nopath" THEN Threw
         ELSE ValidationError(<<"Validation failed">>, PerFieldDetails)
  ELSE IF error.errors = "array"
    THEN ValidationError(<<"Validation failed">>, PerFieldDetails)
  ELSE ValidationError(error.message, NoDetails)

transformClerkError(error) ==
  IF error.status = 401 THEN AuthenticationError(error.message)
  ELSE IF error.status = 403 THEN AuthorizationError(error.message)
  ELSE APIError("APIError", error.message,
                IF error.status = NoStatus THEN 500 ELSE error.status,
                NoCode, NoDetails)

transformCloudinaryError(error) ==
  IF error.http_code = 400
    THEN ValidationError(<<"File upload failed: ">> \o error.message, NoDetails)
  ELSE IF error.http_code = 401
    THEN ExternalServiceError("Cloudinary", <<"Authentication failed">>)
  ELSE IF error.http_code = 413
    THEN ValidationError(<<"File size too large">>, NoDetails)
  ELSE ExternalServiceError("Cloudinary", error.message)

\* transformError: reading a property of null or undefined, and calling
\* startsWith on a code that is no string, are TypeErrors
transformError(error) ==
  IF error.kind = "APIError" THEN error.api
  ELSE IF error.kind \in {"null", "undefined"} THEN Threw
  ELSE IF error.code # NoCode /\ ~IsString(error.code) THEN Threw
  ELSE IF error.code # NoCode /\ startsWithP(error.code)
    THEN transformPrismaError(error)
  ELSE IF error.clerkError \/ (error.status # NoStatus /\ error.message # Absent)
    THEN transformClerkError(error)
  ELSE IF error.http_code # NoStatus THEN transformCloudinaryError(error)
  ELSE IF error.isJoi \/ error.name = "ValidationError"
    THEN transformValidationError(error)
  ELSE IF error.name \in {"MongoError", "MongooseError"}
    THEN DatabaseError(<<"Database operation failed">>)
  ELSE APIError("APIError",
                IF error.message = Absent THEN <<"An unexpected error occurred">>
                ELSE error.message,
                500, "INTERNAL_ERROR", NoDetails)

(* ======================= async wrapper and error middleware ======================= *)
Envs == {"development", "production"}

NoResp == [status |-> 0, kind |-> "none", message |-> Absent, code |-> NoCode,
           details |-> NoDetails, stack |-> FALSE]

\* res.status(...).json({ error: {...} }) of the middleware
sendErrorDev(e) ==
  [status |-> e.statusCode, kind |-> "error", message |-> e.message, code |-> e.code,
   details |-> e.details, stack |-> TRUE]

sendErrorProd(e) ==
  IF e.isOperational
    THEN [status |-> e.statusCode, kind |-> "error", message |-> e.message,
          code |-> e.code, details |-> e.details, stack |-> FALSE]
  ELSE [status |-> 500, kind |-> "error", message |-> <<"Something went wrong!">>,
        code |-> "INTERNAL_ERROR", details |-> NoDetails, stack |-> FALSE]

\* One request through the wrapper and the middleware. handler is the kind of
\* handler, raw what it rejected with, tax the transformer's result once
\* transformed, arg what next was called with, calls how often it was called.
NoRendered == [helper |-> "none", status |-> 0, fields |-> {}]

IdleErr ==
  [pc |-> "idle", handler |-> "none", raw |-> BaseError, tax |-> Threw,
   arg |-> BaseError, calls |-> 0, resp |-> NoResp, unhandled |-> FALSE,
   hasUser |-> FALSE, username |-> "none", transformed |-> FALSE]

errUnchanged ==
  UNCHANGED <<reactions, follows, messages, clock, pc, req, env, flags, flagSeq, rendered, chats, sent, moderated, checked>>

\* asyncHandler(fn): fn resolves after sending its response
HandlerResolves ==
  /\ err.pc = "idle"
  /\ err' = [IdleErr EXCEPT !.pc = "end", !.handler = "wrapped",
                            !.resp = [NoResp EXCEPT !.status = 200, !.kind = "data"]]
  /\ errUnchanged

\* asyncHandler(fn): the promise of fn rejects with any value
HandlerRejects ==
  /\ err.pc = "idle"
  /\ \E raw \in RawErrors :
       err' = [IdleErr EXCEPT !.pc = "catch", !.handler = "wrapped", !.raw = raw]
  /\ errUnchanged

\* the .catch callback: transformError(error), then next(transformedError); a
\* throw in the callback rejects the promise nobody awaits
AsyncHandlerCatch ==
  /\ err.pc = "catch"
  /\ LET transformedError == transformError(err.raw)
     IN IF transformedError.threw
          THEN err' = [err EXCEPT !.pc = "end", !.tax = transformedError,
                                  !.transformed = TRUE, !.unhandled = TRUE]
        ELSE err' = [err EXCEPT !.pc = "middleware", !.tax = transformedError,
                                !.transformed = TRUE,
                                !.arg = [BaseError EXCEPT !.kind = "APIError",
                                                          !.api = transformedError],
                                !.calls = @ + 1]
  /\ errUnchanged

\* notFoundHandler: next(new APIError(..., 404, 'ROUTE_NOT_FOUND'))
NotFoundHandler ==
  /\ err.pc = "idle"
  /\ err' = [IdleErr EXCEPT
               !.pc = "middleware", !.handler = "notFound", !.calls = 1,
               !.arg = [BaseError EXCEPT
                          !.kind = "APIError",
                          !.api = APIError("APIError", <<"Route not found">>, 404,
                                           "ROUTE_NOT_FOUND", NoDetails)]]
  /\ errUnchanged

\* errorHandler(err, req, res, next)
ErrorHandler ==
  /\ err.pc = "middleware"
  /\ LET error == IF err.arg.kind = "APIError" THEN err.arg.api
                  ELSE transformError(err.arg)
         ran == err.arg.kind # "APIError" \/ err.transformed
     IN IF error.threw
          THEN err' = [err EXCEPT !.pc = "end", !.tax = error, !.transformed = ran,
                                  !.unhandled = TRUE]
        ELSE err' = [err EXCEPT
                       !.pc = "end", !.tax = error, !.transformed = ran,
                       !.resp = IF env = "development" THEN sendErrorDev(error)
                                ELSE sendErrorProd(error)]
  /\ errUnchanged

\* createValidationMiddleware: catch (error) { next(error) } with the raw error
\* (next(null) and next(undefined) are no error to the framework)
ValidationMiddlewareNext ==
  /\ err.pc = "idle"
  /\ \E raw \in {e \in RawErrors : e.kind \notin {"null", "undefined"}} :
       err' = [IdleErr EXCEPT !.pc = "middleware", !.handler = "middleware",
                              !.raw = raw, !.arg = raw, !.calls = 1]
  /\ errUnchanged

(* ---- auth controller: getCurrentUser, updateProfile, completeProfile ---- *)
AuthHandlers == {"getCurrentUser", "updateProfile", "completeProfile"}

\* hasUser: the authenticated user has a local record; username: the body's
\* username is missing ("none"), free or taken by another user
AuthRequest ==
  /\ err.pc = "idle"
  /\ \E handler \in AuthHandlers, hasUser \in BOOLEAN,
        username \in {"none", "free", "taken"} :
       err' = [IdleErr EXCEPT !.pc = "auth_try", !.handler = handler,
                              !.hasUser = hasUser, !.username = username]
  /\ errUnchanged

\* user.update({ where: { clerkId } }) without a row: P2025
UpdateMissing == [BaseError EXCEPT !.code = "P2025", !.message = <<"boom">>]
Thrown(e) == [BaseError EXCEPT !.kind = "APIError", !.api = e]

\* what the try block throws; BaseError when it reaches res.json
AuthThrows(handler, hasUser, username) ==
  CASE handler = "getCurrentUser" ->
         IF ~hasUser THEN Thrown(NotFoundError("User")) ELSE BaseError
    [] handler = "updateProfile" ->
         IF username = "taken"
           THEN Thrown(ConflictError(<<"Username already taken">>, NoDetails))
         ELSE IF ~hasUser THEN UpdateMissing ELSE BaseError
    [] OTHER ->
         IF username = "none"
           THEN Thrown(ValidationError(<<"Username is required">>, NoDetails))
         ELSE IF username = "taken"
           THEN Thrown(ConflictError(<<"Username already taken">>, NoDetails))
         ELSE IF ~hasUser THEN UpdateMissing ELSE BaseError

AuthTryBody ==
  /\ err.pc = "auth_try"
  /\ LET thrown == AuthThrows(err.handler, err.hasUser, err.username)
     IN IF thrown = BaseError
          THEN err' = [err EXCEPT !.pc = "end",
                                  !.resp = [NoResp EXCEPT !.status = 200, !.kind = "data"]]
        ELSE err' = [err EXCEPT !.pc = "auth_catch", !.raw = thrown]
  /\ errUnchanged

\* catch (error) { console.error(...); res.status(500).json({ error: 'Failed to ...' }) }
AuthLocalCatch ==
  /\ err.pc = "auth_catch"
  /\ err' = [err EXCEPT !.pc = "end",
                        !.resp = [NoResp EXCEPT !.status = 500, !.kind = "error",
                                                !.message = <<"Failed to ", err.handler>>]]
  /\ errUnchanged

ErrFinish ==
  /\ err.pc = "end"
  /\ err' = IdleErr
  /\ errUnchanged

(* ======================= moderation flags ======================= *)
validEntityTypes == {"POST", "COMMENT", "USER"}
validStatuses == {"PENDING", "VALID", "INVALID"}

\* The comments table: k1 is live, k2 soft-deleted; k3 has no row.
CommentIds == {"k1", "k2", "k3"}
CommentStatus(commentId) ==
  CASE commentId = "k1" -> "live"
    [] commentId = "k2" -> "deleted"
    [] OTHER -> "missing"

\* authorId of the post / comment rows
PostAuthor(postId) ==
  CASE postId = "p1" -> "u1"
    [] postId = "p2" -> "u2"
    [] postId = "p3" -> "u1"
    [] OTHER -> NoId

CommentAuthor(commentId) ==
  CASE commentId = "k1" -> "u2"
    [] commentId = "k2" -> "u1"
    [] OTHER -> NoId

\* the row an entity lookup by id reads: "live", "deleted" (deletedAt set) or
\* "missing"; an expired post is a row whose deletedAt is null
EntityStatus(entityType, entityId) ==
  CASE <<entityType, entityId>> \in moderated.removed -> "deleted"
    [] entityType = "POST" ->
         IF PostStatus(entityId) = "expired" THEN "live" ELSE PostStatus(entityId)
    [] entityType = "COMMENT" -> CommentStatus(entityId)
    [] entityType = "USER" -> IF entityId \in Users THEN "live" ELSE "missing"
    [] OTHER -> "missing"

\* entityData.authorId of reportContent: the USER select has no authorId
EntityAuthor(entityType, entityId) ==
  CASE entityType = "POST" -> PostAuthor(entityId)
    [] entityType = "COMMENT" -> CommentAuthor(entityId)
    [] OTHER -> NoId

\* the reason a reporter gives with a report
ReporterReason == "spam"

Flag(id, entityType, entityId, reporterId, status) ==
  [id |-> id, entityType |-> entityType, entityId |-> entityId,
   reporterId |-> reporterId, status |-> status, reason |-> ReporterReason]

\* moderationFlag.findFirst({ where: { entityType, entityId, reporterId } })
ReporterFlags(entityType, entityId, reporterId) ==
  {f \in flags : f.entityType = entityType /\ f.entityId = entityId
                 /\ f.reporterId = reporterId}

\* the request fields a report is issued with
ReportTypes(concurrent) ==
  IF concurrent THEN {"POST", "USER"} ELSE {"POST", "COMMENT", "USER", "post", "BOGUS", NoId}
ReportEntities(concurrent) ==
  IF concurrent THEN {"p1", "u1"} ELSE {"p1", "p2", "k1", NoId}
ReportUsers(concurrent) == IF concurrent THEN {"u1", "u2"} ELSE {"u1", "u2", NoId}
ReportBodyUsers(concurrent) ==
  IF concurrent THEN {"u1", "u2"} ELSE {"u1", "u2", GhostUser, NoId}
StatusInputs(concurrent) ==
  IF concurrent THEN {"VALID", "INVALID"}
  ELSE {"PENDING", "VALID", "INVALID", "valid", "BOGUS", NoId}

ReportSteps == {"rfl_entity", "rfl_reporter", "rfl_find", "rfl_create",
                "rc_entity", "rc_find", "rc_create"}

\* A report may be issued while fewer than MaxFlags flags were created or are
\* being created.
MayReport(p, concurrent) ==
  /\ MayStart(p, concurrent)
  /\ flagSeq + Cardinality({q \in Procs : pc[q] \in ReportSteps}) < MaxFlags

modUnchanged == UNCHANGED <<reactions, follows, messages, clock, env, err, rendered, chats, sent, moderated, checked>>

(* ---- POST /api/moderation/flags (routes/moderation.js) ---- *)
RouteCreateFlag(p, concurrent) ==
  /\ MayReport(p, concurrent)
  /\ \E entityType \in ReportTypes(concurrent), entityId \in ReportEntities(concurrent),
        reporterId \in ReportBodyUsers(concurrent) :
       LET r == NewReq("routeFlag", entityId, reporterId, entityType, <<>>,
                       ReporterFlags(entityType, entityId, reporterId))
       IN IF entityType = NoId \/ entityId = NoId \/ reporterId = NoId
            THEN Reply(p, r, 400, "error")
          ELSE IF entityType \notin validEntityTypes
            THEN Reply(p, r, 400, "error")
          ELSE Await(p, r, "rfl_entity")
  /\ UNCHANGED <<flags, flagSeq>>
  /\ modUnchanged

\* findUnique({ where: { id: entityId } }): a soft-deleted row is found
RouteFlagEntity(p) ==
  /\ pc[p] = "rfl_entity"
  /\ IF EntityStatus(req[p].type, req[p].a) = "missing"
       THEN Reply(p, req[p], 404, "error")
     ELSE Await(p, req[p], "rfl_reporter")
  /\ UNCHANGED <<flags, flagSeq>>
  /\ modUnchanged

RouteFlagReporter(p) ==
  /\ pc[p] = "rfl_reporter"
  /\ IF req[p].b \notin Users
       THEN Reply(p, req[p], 404, "error")
     ELSE Await(p, req[p], "rfl_find")
  /\ UNCHANGED <<flags, flagSeq>>
  /\ modUnchanged

\* existingFlag looked up among the PENDING flags only
RouteFlagFind_PendingOnly(p) ==
  /\ pc[p] = "rfl_find"
  /\ IF \E f \in ReporterFlags(req[p].type, req[p].a, req[p].b) : f.status = "PENDING"
       THEN Reply(p, req[p], 409, "error")
     ELSE Await(p, req[p], "rfl_create")
  /\ UNCHANGED <<flags, flagSeq>>
  /\ modUnchanged

\* existingFlag looked up whatever the flag's status
RouteFlagFind(p) ==
  /\ pc[p] = "rfl_find"
  /\ IF ReporterFlags(req[p].type, req[p].a, req[p].b) # {}
       THEN Reply(p, req[p], 409, "error")
     ELSE Await(p, req[p], "rfl_create")
  /\ UNCHANGED <<flags, flagSeq>>
  /\ modUnchanged

\* moderationFlag.create: id is a fresh uuid, status defaults to PENDING
RouteFlagCreate(p) ==
  /\ pc[p] = "rfl_create"
  /\ flagSeq' = flagSeq + 1
  /\ flags' = flags \cup {Flag(flagSeq + 1, req[p].type, req[p].a, req[p].b, "PENDING")}
  /\ Reply(p, req[p], 201, "created")
  /\ modUnchanged

(* ---- reportContent (moderation controller) ---- *)
ReportContent(p, concurrent) ==
  /\ MayReport(p, concurrent)
  /\ \E entityType \in ReportTypes(concurrent), entityId \in ReportEntities(concurrent),
        reporterId \in ReportUsers(concurrent) :
       LET r == NewReq("reportContent", entityId, reporterId, entityType, <<>>,
                       ReporterFlags(entityType, entityId, reporterId))
       IN IF reporterId = NoId THEN Reply(p, r, 401, "error")
          ELSE IF entityType = NoId \/ toUpperCase(entityType) \notin validEntityTypes
            THEN Reply(p, r, 400, "error")
          ELSE IF entityId = NoId THEN Reply(p, r, 400, "error")
          ELSE Await(p, r, "rc_entity")
  /\ UNCHANGED <<flags, flagSeq>>
  /\ modUnchanged

\* findUnique({ where: { id: entityId, deletedAt: null } }) for posts and
\* comments, findUnique({ where: { id } }) for users
ReportContentEntity(p) ==
  /\ pc[p] = "rc_entity"
  /\ IF EntityStatus(toUpperCase(req[p].type), req[p].a) # "live"
       THEN Reply(p, req[p], 404, "error")
     ELSE Await(p, req[p], "rc_find")
  /\ UNCHANGED <<flags, flagSeq>>
  /\ modUnchanged

\* existingReport, then the own-content check on entityData.authorId
ReportContentFind(p) ==
  /\ pc[p] = "rc_find"
  /\ IF ReporterFlags(toUpperCase(req[p].type), req[p].a, req[p].b) # {}
       THEN Reply(p, req[p], 409, "error")
     ELSE IF EntityAuthor(toUpperCase(req[p].type), req[p].a) = req[p].b
       THEN Reply(p, req[p], 400, "error")
     ELSE Await(p, req[p], "rc_create")
  /\ UNCHANGED <<flags, flagSeq>>
  /\ modUnchanged

ReportContentCreate(p) ==
  /\ pc[p] = "rc_create"
  /\ flagSeq' = flagSeq + 1
  /\ flags' = flags \cup
       {Flag(flagSeq + 1, toUpperCase(req[p].type), req[p].a, req[p].b, "PENDING")}
  /\ Reply(p, req[p], 201, "created")
  /\ modUnchanged

(* ---- PUT /api/moderation/flags/:id/status (routes/moderation.js) ---- *)
\* flag ids a request may name: the ids created so far and one never created
FlagIdInputs == 1..(flagSeq + 1)

\* the flags table as a sequential request finds it
FlagsPre(concurrent) == IF concurrent THEN {} ELSE flags

\* moderationFlag.update({ where: { id }, data: { status } })
SetStatus_PendingOnly(id, status) ==
  {IF f.id = id /\ f.status = "PENDING" THEN [f EXCEPT !.status = status] ELSE f
     : f \in flags}

SetStatus(id, status) ==
  {IF f.id = id THEN [f EXCEPT !.status = status] ELSE f : f \in flags}

RouteFlagStatus(p, concurrent) ==
  /\ MayStart(p, concurrent)
  /\ \E id \in FlagIdInputs, status \in StatusInputs(concurrent) :
       LET r == NewReq("routeFlagStatus", id, NoId, status, <<>>, FlagsPre(concurrent))
       IN IF status = NoId THEN Reply(p, r, 400, "error")
          ELSE IF status \notin validStatuses THEN Reply(p, r, 400, "error")
          ELSE Await(p, r, "rs_update")
  /\ UNCHANGED <<flags, flagSeq>>
  /\ modUnchanged

\* moderationFlag.update; P2025 when no row has the id
RouteFlagStatusUpdate(p) ==
  /\ pc[p] = "rs_update"
  /\ IF \E f \in flags : f.id = req[p].a
       THEN /\ flags' = SetStatus(req[p].a, req[p].type)
            /\ Reply(p, req[p], 200, "updated")
       ELSE /\ UNCHANGED flags
            /\ Reply(p, req[p], 404, "error")
  /\ UNCHANGED flagSeq
  /\ modUnchanged

(* ---- updateModerationFlag (moderation controller) ---- *)
\* the request's adminNotes is one of notes; NoId is a request without notes
UpdateModerationFlagNotes(p, concurrent, notes) ==
  /\ MayStart(p, concurrent)
  /\ \E id \in FlagIdInputs, status \in StatusInputs(concurrent), adminNotes \in notes :
       LET r == NewReq("updateFlag", id, adminNotes, status, <<>>, FlagsPre(concurrent))
       IN IF status = NoId \/ toUpperCase(status) \notin validStatuses
            THEN Reply(p, r, 400, "error")
          ELSE Await(p, r, "uf_find")
  /\ UNCHANGED <<flags, flagSeq>>
  /\ modUnchanged

UpdateModerationFlag(p, concurrent) == UpdateModerationFlagNotes(p, concurrent, {NoId})

UpdateFlagFind(p) ==
  /\ pc[p] = "uf_find"
  /\ IF \E f \in flags : f.id = req[p].a
       THEN Await(p, req[p], "uf_update")
       ELSE Reply(p, req[p], 404, "error")
  /\ UNCHANGED <<flags, flagSeq>>
  /\ modUnchanged

\* moderationFlag.update; P2025 is caught by the handler's catch: 500
UpdateFlagUpdate(p) ==
  /\ pc[p] = "uf_update"
  /\ IF \E f \in flags : f.id = req[p].a
       THEN /\ flags' = {IF f.id = req[p].a /\ req[p].b # NoId
                              THEN [f EXCEPT !.reason = req[p].b] ELSE f
                            : f \in SetStatus(req[p].a, toUpperCase(req[p].type))}
            /\ Reply(p, req[p], 200, "updated")
       ELSE /\ UNCHANGED flags
            /\ Reply(p, req[p], 500, "error")
  /\ UNCHANGED flagSeq
  /\ modUnchanged

(* ---- DELETE /api/moderation/flags/:id (routes/moderation.js) ---- *)
RouteDeleteFlag(p, concurrent) ==
  /\ MayStart(p, concurrent)
  /\ \E id \in FlagIdInputs :
       Await(p, NewReq("routeDeleteFlag", id, NoId, NoId, <<>>, {}), "df_delete")
  /\ UNCHANGED <<flags, flagSeq>>
  /\ modUnchanged

RouteDeleteFlagDelete(p) ==
  /\ pc[p] = "df_delete"
  /\ IF \E f \in flags : f.id = req[p].a
       THEN /\ flags' = {f \in flags : f.id # req[p].a}
            /\ Reply(p, req[p], 204, "removed")
       ELSE /\ UNCHANGED flags
            /\ Reply(p, req[p], 404, "error")
  /\ UNCHANGED flagSeq
  /\ modUnchanged

ModerationSteps(p) ==
  \/ RouteFlagEntity(p) \/ RouteFlagReporter(p) \/ RouteFlagFind(p) \/ RouteFlagCreate(p)
  \/ ReportContentEntity(p) \/ ReportContentFind(p) \/ ReportContentCreate(p)
  \/ RouteFlagStatusUpdate(p) \/ UpdateFlagFind(p) \/ UpdateFlagUpdate(p)
  \/ RouteDeleteFlagDelete(p)
  \/ Finish(p)

(* ---- deleteContent (moderation controller) ---- *)
AdminNotes == {NoId, "note"}
adminUnchanged ==
  UNCHANGED <<reactions, follows, messages, clock, env, err, rendered, chats, sent,
              checked>>

\* moderationFlag.updateMany on the PENDING flags of the entity
ResolveFlags(entityType, entityId, reason) ==
  {IF f.entityType = entityType /\ f.entityId = entityId /\ f.status = "PENDING"
     THEN [f EXCEPT !.status = "VALID", !.reason = reason] ELSE f
   : f \in flags}

DeleteContent(p) ==
  /\ MayStart(p, TRUE)
  /\ \E entityType \in {"POST", "post", "USER"}, entityId \in {"p1", "p4"},
        reason \in AdminNotes :
       LET r == NewReq("deleteContent", entityId, reason, entityType, <<>>, {})
       IN IF toUpperCase(entityType) \notin {"POST", "COMMENT"}
            THEN Reply(p, r, 400, "error")
          ELSE Await(p, r, "dc_find")
  /\ UNCHANGED <<flags, flagSeq, moderated>>
  /\ adminUnchanged

\* findUnique({ where: { id: entityId, deletedAt: null } })
DeleteContentFind(p) ==
  /\ pc[p] = "dc_find"
  /\ IF EntityStatus(toUpperCase(req[p].type), req[p].a) # "live"
       THEN Reply(p, req[p], 404, "error")
     ELSE Await(p, req[p], "dc_update")
  /\ UNCHANGED <<flags, flagSeq, moderated>>
  /\ adminUnchanged

\* update({ where: { id: entityId }, data: { deletedAt: new Date() } })
DeleteContentUpdate(p) ==
  /\ pc[p] = "dc_update"
  /\ moderated' = [moderated EXCEPT
                     !.removed = @ \cup {<<toUpperCase(req[p].type), req[p].a>>}]
  /\ Await(p, req[p], "dc_flags")
  /\ UNCHANGED <<flags, flagSeq>>
  /\ adminUnchanged

DeleteContentFlags(p) ==
  /\ pc[p] = "dc_flags"
  /\ flags' = ResolveFlags(toUpperCase(req[p].type), req[p].a,
                           IF req[p].b = NoId THEN "Content deleted by moderator"
                           ELSE req[p].b)
  /\ Reply(p, req[p], 200, "deleted")
  /\ UNCHANGED <<flagSeq, moderated>>
  /\ adminUnchanged

(* ---- suspendUser (moderation controller) ---- *)
SuspendUser(p) ==
  /\ MayStart(p, TRUE)
  /\ \E userId \in {"u1", GhostUser}, duration \in {0, 24}, reason \in AdminNotes :
       LET r == NewReq("suspendUser", userId, reason, NoId, <<>>, {})
       IN IF duration <= 0 THEN Reply(p, r, 400, "error")
          ELSE Await(p, r, "su_find")
  /\ UNCHANGED <<flags, flagSeq, moderated>>
  /\ adminUnchanged

SuspendUserFind(p) ==
  /\ pc[p] = "su_find"
  /\ IF req[p].a \notin Users THEN Reply(p, req[p], 404, "error")
     ELSE Await(p, req[p], "su_update")
  /\ UNCHANGED <<flags, flagSeq, moderated>>
  /\ adminUnchanged

\* user.update({ data: { suspendedUntil } })
SuspendUserUpdate(p) ==
  /\ pc[p] = "su_update"
  /\ moderated' = [moderated EXCEPT !.suspended = @ \cup {req[p].a}]
  /\ Await(p, req[p], "su_flags")
  /\ UNCHANGED <<flags, flagSeq>>
  /\ adminUnchanged

SuspendUserFlags(p) ==
  /\ pc[p] = "su_flags"
  /\ flags' = ResolveFlags("USER", req[p].a,
                           IF req[p].b = NoId THEN "User suspended for 24 hours"
                           ELSE req[p].b)
  /\ Reply(p, req[p], 200, "suspended")
  /\ UNCHANGED <<flagSeq, moderated>>
  /\ adminUnchanged

\* the steps of the moderation controller's handlers
ControllerSteps(p) ==
  \/ ReportContentEntity(p) \/ ReportContentFind(p) \/ ReportContentCreate(p)
  \/ UpdateFlagFind(p) \/ UpdateFlagUpdate(p)
  \/ DeleteContentFind(p) \/ DeleteContentUpdate(p) \/ DeleteContentFlags(p)
  \/ SuspendUserFind(p) \/ SuspendUserUpdate(p) \/ SuspendUserFlags(p)
  \/ Finish(p)

(* ======================= response helpers ======================= *)
\* Values a helper is called with: undefined, null, and values of the other
\* JSON kinds. res.json drops a key whose value is undefined.
Undefined == "undefined"
DataInputs == {Undefined, "null", "object", "array", "text"}
MessageInputs == {Undefined, "Done"}
StatusCodeInputs == {199, 200, 201, 204, 299, 300, 400, 404, 500}

\* a default parameter value: used when the argument is undefined
Default(v, d) == IF v = Undefined THEN d ELSE v
\* a || b on the values above
Or(v, d) == IF v \in {Undefined, "null"} THEN d ELSE v

\* the keys of the serialised body: those whose value is not undefined
Keys(body) == {k \in DOMAIN body : body[k] # Undefined}

Rendered(helper, statusCode, body) ==
  [helper |-> helper, status |-> statusCode, fields |-> Keys(body),
   success |-> IF "success" \in DOMAIN body THEN body.success ELSE Undefined,
   message |-> IF "message" \in DOMAIN body THEN body.message ELSE Undefined,
   data |-> IF "data" \in DOMAIN body THEN body.data ELSE Undefined]

success(data, message, statusCode) ==
  Rendered("success", statusCode,
           [success |-> "true", message |-> Default(message, "Success"),
            data |-> data, timestamp |-> "now"])

created(data, message) ==
  [success(data, Default(message, "Resource created successfully"), 201)
     EXCEPT !.helper = "created"]

noContent(message) ==
  Rendered("noContent", 204,
           [success |-> "true",
            message |-> Default(message, "Operation completed successfully"),
            timestamp |-> "now"])

\* the pagination argument: page, limit and total as the callers compute them
MaxPage == 6
MaxLimit == 20
MaxTotal == 96
PaginationInputs ==
  [page : 1..MaxPage, limit : 1..MaxLimit, total : 0..MaxTotal]

\* Math.ceil(a / b) on a >= 0, b >= 1
ceil_Floor(a, b) == a \div b

ceil(a, b) == IF a % b = 0 THEN a \div b ELSE (a \div b) + 1

paginated(data, pagination, message) ==
  Rendered("paginated", 200,
           [success |-> "true", message |-> Default(message, "Success"),
            data |-> data, pagination |-> "object", timestamp |-> "now"])
  @@ [pagination |->
        [page |-> pagination.page,
         limit |-> pagination.limit,
         total |-> pagination.total,
         pages |-> ceil(pagination.total, pagination.limit),
         hasNext |-> pagination.page < ceil(pagination.total, pagination.limit),
         hasPrev |-> pagination.page > 1]]

\* error and the helpers of fixed status built like it (validationError,
\* unauthorized, forbidden, notFound, conflict, rateLimited, serverError)
errorResponse(helper, message, statusCode) ==
  Rendered(helper, statusCode,
           [success |-> "false", error |-> "object", timestamp |-> "now"])

FixedErrorHelpers ==
  {<<"validationError", 400>>, <<"unauthorized", 401>>, <<"forbidden", 403>>,
   <<"notFound", 404>>, <<"conflict", 409>>, <<"rateLimited", 429>>,
   <<"serverError", 500>>}

custom(statusCode, data, message) ==
  LET isSuccess == statusCode >= 200 /\ statusCode < 300
  IN IF isSuccess
       THEN Rendered("custom", statusCode,
                     [success |-> "true", timestamp |-> "now",
                      message |-> Or(message, "Success"), data |-> data])
       ELSE Rendered("custom", statusCode,
                     [success |-> "false", timestamp |-> "now", error |-> "object"])

\* checks: the set of the sub-checks' statuses
health(checks) ==
  LET allHealthy == \A c \in checks : c = "healthy"
  IN Rendered("health", IF allHealthy THEN 200 ELSE 503,
              [status |-> IF allHealthy THEN "healthy" ELSE "unhealthy",
               timestamp |-> "now", uptime |-> "number", checks |-> "object"])

\* the body sendErrorDev / sendErrorProd pass to res.json: { error: {...} }
errorMiddlewareBody(e, environment) ==
  LET resp == IF environment = "development" THEN sendErrorDev(e) ELSE sendErrorProd(e)
  IN [helper |-> "errorMiddleware", status |-> resp.status, fields |-> {"error"},
      success |-> Undefined, message |-> Undefined, data |-> Undefined]

respUnchanged ==
  UNCHANGED <<reactions, follows, messages, clock, pc, req, env, err, flags, flagSeq, chats, sent, moderated, checked>>

\* the response is sent and the request ends; the next request renders its own
ResponseSent ==
  /\ rendered # NoRendered
  /\ rendered' = NoRendered
  /\ respUnchanged

CallSuccess ==
  /\ rendered = NoRendered
  /\ \E data \in DataInputs, message \in MessageInputs, statusCode \in {200, 202} :
       rendered' = success(data, message, statusCode)
  /\ respUnchanged

CallCreated ==
  /\ rendered = NoRendered
  /\ \E data \in DataInputs, message \in MessageInputs :
       rendered' = created(data, message)
  /\ respUnchanged

CallNoContent ==
  /\ rendered = NoRendered
  /\ \E message \in MessageInputs : rendered' = noContent(message)
  /\ respUnchanged

CallPaginated ==
  /\ rendered = NoRendered
  /\ \E data \in {"array"}, pagination \in PaginationInputs, message \in MessageInputs :
       rendered' = paginated(data, pagination, message)
  /\ respUnchanged

CallError ==
  /\ rendered = NoRendered
  /\ \/ \E message \in MessageInputs, statusCode \in StatusCodeInputs :
          rendered' = errorResponse("error", message, statusCode)
     \/ \E h \in FixedErrorHelpers, message \in MessageInputs :
          rendered' = errorResponse(h[1], message, h[2])
  /\ respUnchanged

CallCustom ==
  /\ rendered = NoRendered
  /\ \E statusCode \in StatusCodeInputs, data \in DataInputs,
        message \in MessageInputs \cup {"null"} :
       rendered' = custom(statusCode, data, message)
  /\ respUnchanged

CallHealth ==
  /\ rendered = NoRendered
  /\ \E checks \in SUBSET {"healthy", "unhealthy"} : rendered' = health(checks)
  /\ respUnchanged

CallErrorMiddleware ==
  /\ rendered = NoRendered
  /\ \E e \in ThrownAPIErrors : rendered' = errorMiddlewareBody(e, env)
  /\ respUnchanged

(* ======================= sending messages ======================= *)
\* A send request may be issued while fewer than MaxSent messages were sent or
\* are being sent.
MaxSent == 2
SendOps == {"sendMessage", "routeSend"}
\* <<senderId, body>> of a request: a member, a user who is no member, no
\* sender, no body
SendInputs == {<<"u1", "hi">>, <<"u3", "hi">>, <<NoId, "hi">>, <<"u1", NoId>>}

MaySend(p) ==
  /\ pc[p] = "idle"
  /\ Cardinality(sent) + Cardinality({q \in Procs : req[q].op \in SendOps /\ pc[q] # "done"})
       < MaxSent

sendUnchanged ==
  UNCHANGED <<reactions, follows, messages, clock, env, err, flags, flagSeq, rendered,
              moderated, checked>>

\* the message row a transaction inserts: createdAt is the database's now()
MessageRow(chatId, senderId, createdAt) ==
  [id |-> Cardinality(sent) + 1, chatId |-> chatId, senderId |-> senderId,
   createdAt |-> createdAt]

\* a transaction that has updated the chat row holds its lock until it ends
ChatLocked(p) == \E q \in Procs \ {p} : pc[q] = "sm_commit"

(* ---- sendMessage (messages controller) ---- *)
SendMessage(p) ==
  /\ MaySend(p)
  /\ \E in \in SendInputs :
       LET senderId == in[1]
           body == in[2]
           r == NewReq("sendMessage", "c1", senderId, body, <<>>, {})
       IN IF senderId = NoId THEN Reply(p, r, 401, "error")
          ELSE IF body = NoId THEN Reply(p, r, 400, "error")
          ELSE Await(p, r, "sm_member")
  /\ UNCHANGED <<chats, sent>>
  /\ sendUnchanged

SendMessageMember(p) ==
  /\ pc[p] = "sm_member"
  /\ IF req[p].b \notin ChatMembers(req[p].a) THEN Reply(p, req[p], 403, "error")
     ELSE Await(p, req[p], "sm_create")
  /\ UNCHANGED <<chats, sent>>
  /\ sendUnchanged

\* SendMessageCreate with the insert made outside the transaction
SendMessageCreate_Visible(p) ==
  /\ pc[p] = "sm_create"
  /\ sent' = sent \cup {MessageRow(req[p].a, req[p].b, clock)}
  /\ Await(p, [req[p] EXCEPT !.now = clock], "sm_update")
  /\ UNCHANGED chats
  /\ sendUnchanged

\* prisma.message.create inside the transaction: the row is not committed yet
SendMessageCreate(p) ==
  /\ pc[p] = "sm_create"
  /\ Await(p, [req[p] EXCEPT !.now = clock], "sm_update")
  /\ UNCHANGED <<chats, sent>>
  /\ sendUnchanged

\* prisma.chat.update inside the transaction: waits for the chat row's lock
SendMessageUpdate(p) ==
  /\ pc[p] = "sm_update"
  /\ ~ChatLocked(p)
  /\ Await(p, req[p], "sm_commit")
  /\ UNCHANGED <<chats, sent>>
  /\ sendUnchanged

\* the transaction commits: the message and lastMessageAt = message.createdAt
SendMessageCommit(p) ==
  /\ pc[p] = "sm_commit"
  /\ sent' = sent \cup {MessageRow(req[p].a, req[p].b, req[p].now)}
  /\ chats' = [chats EXCEPT ![req[p].a].lastMessageAt = req[p].now]
  /\ Reply(p, req[p], 201, "created")
  /\ sendUnchanged

\* the transaction fails (a storage error, its timeout) and is rolled back
SendMessageAbort(p) ==
  /\ pc[p] \in {"sm_update", "sm_commit"}
  /\ Reply(p, req[p], 500, "error")
  /\ UNCHANGED <<chats, sent>>
  /\ sendUnchanged

(* ---- POST /api/messages (routes/messages.js) ---- *)
RoutePostMessage(p) ==
  /\ MaySend(p)
  /\ \E in \in SendInputs :
       LET senderId == in[1]
           body == in[2]
           r == NewReq("routeSend", "c1", senderId, body, <<>>, {})
       IN IF senderId = NoId \/ body = NoId THEN Reply(p, r, 400, "error")
          ELSE Await(p, r, "rm_member")
  /\ UNCHANGED <<chats, sent>>
  /\ sendUnchanged

\* the member check; then the transaction's statements are built, the chat
\* update with lastMessageAt: new Date()
RoutePostMessageMember(p) ==
  /\ pc[p] = "rm_member"
  /\ IF req[p].b \notin ChatMembers(req[p].a) THEN Reply(p, req[p], 403, "error")
     ELSE Await(p, [req[p] EXCEPT !.now = clock], "rm_tx")
  /\ UNCHANGED <<chats, sent>>
  /\ sendUnchanged

\* $transaction([message.create, chat.update]) commits, or fails as a whole
RoutePostMessageTx(p) ==
  /\ pc[p] = "rm_tx"
  /\ ~ChatLocked(p)
  /\ \/ /\ sent' = sent \cup {MessageRow(req[p].a, req[p].b, clock)}
        /\ chats' = [chats EXCEPT ![req[p].a].lastMessageAt = req[p].now]
        /\ Reply(p, req[p], 201, "created")
     \/ /\ Reply(p, req[p], 500, "error")
        /\ UNCHANGED <<chats, sent>>
  /\ sendUnchanged

SendSteps(p) ==
  \/ SendMessageMember(p) \/ SendMessageCreate(p) \/ SendMessageUpdate(p)
  \/ SendMessageCommit(p) \/ SendMessageAbort(p)
  \/ RoutePostMessageMember(p) \/ RoutePostMessageTx(p)
  \/ Finish(p)

(* ======================= validation helpers ======================= *)
\* Coordinates are counted in tenths of a degree: 1800 is 180.0 and 1801 is
\* 180.1. An argument is a number, a text that starts with a number ("90.0abc")
\* or a text that holds none (also undefined and null).
Tenths == {-1801, -1800, -1799, -901, -900, -899, 0, 899, 900, 901, 1799, 1800, 1801}
CoordinateInputs ==
  [kind : {"number", "text"}, v : Tenths] \cup {[kind |-> "junk", v |-> 0]}

\* parseFloat: the number, the number a text starts with, or NaN
parseFloat(x) ==
  IF x.kind = "junk" THEN [nan |-> TRUE, v |-> 0] ELSE [nan |-> FALSE, v |-> x.v]

\* validateCoordinates(latitude, longitude) of utils/validation.js
validateCoordinates(latitude, longitude) ==
  LET lat == parseFloat(latitude)
      lng == parseFloat(longitude)
      thrown == [helper |-> "validateCoordinates", input |-> <<latitude, longitude>>,
                 threw |-> TRUE, class |-> "ValidationError", statusCode |-> 400,
                 result |-> <<>>]
  IN IF lat.nan \/ lat.v < -900 \/ lat.v > 900 THEN thrown
     ELSE IF lng.nan \/ lng.v < -1800 \/ lng.v > 1800 THEN thrown
     ELSE [helper |-> "validateCoordinates", input |-> <<latitude, longitude>>,
           threw |-> FALSE, class |-> "none", statusCode |-> 0,
           result |-> <<lat.v, lng.v>>]

validUnchanged ==
  UNCHANGED <<reactions, follows, messages, clock, pc, req, env, err, flags, flagSeq,
              rendered, chats, sent, moderated>>

CallValidateCoordinates ==
  /\ checked = NoChecked
  /\ \E latitude \in CoordinateInputs, longitude \in CoordinateInputs :
       checked' = validateCoordinates(latitude, longitude)
  /\ validUnchanged

\* the helper has returned or thrown; the next call starts afresh
ValidationReturned ==
  /\ checked # NoChecked
  /\ checked' = NoChecked
  /\ validUnchanged

(* ======================= specifications ======================= *)
InitWith(environments) ==
  /\ reactions = {}
  /\ follows = {}
  /\ messages = InitMessages
  /\ clock = 1
  /\ pc = [p \in Procs |-> "idle"]
  /\ req = [p \in Procs |-> IdleReq]
  /\ env \in environments
  /\ err = IdleErr
  /\ flags = {}
  /\ flagSeq = 0
  /\ rendered = NoRendered
  /\ chats = InitChats
  /\ sent = {}
  /\ moderated = NoModerated
  /\ checked = NoChecked

Init == InitWith({"production"})

\* reaction requests of concurrent tasks
NextReact ==
  \E p \in Procs :
    \/ RoutePostReaction(p, TRUE) \/ ToggleReaction(p, TRUE) \/ AddReaction(p, TRUE)
    \/ ReactionSteps(p)

SpecReact == Init /\ [][NextReact]_vars

\* reaction requests executed one after another
NextReactSeq ==
  \E p \in Procs :
    \/ RoutePostReaction(p, FALSE) \/ ToggleReaction(p, FALSE) \/ AddReaction(p, FALSE)
    \/ ReactionSteps(p)

SpecReactSeq == Init /\ [][NextReactSeq]_vars

\* delivery and read requests of concurrent tasks, with time passing
NextMsg ==
  \/ Tick
  \/ \E p \in Procs :
       \/ RouteDelivered(p, TRUE) \/ RouteRead(p, TRUE)
       \/ MarkMessageAsDelivered(p, TRUE) \/ MarkMessageAsRead(p, TRUE)
       \/ MarkAllRead(p, TRUE)
       \/ MessageSteps(p)

SpecMsg == Init /\ [][NextMsg]_vars

\* delivery and read requests executed one after another, with time passing
NextMsgSeq ==
  \/ Tick
  \/ \E p \in Procs :
       \/ RouteDelivered(p, FALSE) \/ RouteRead(p, FALSE)
       \/ MarkMessageAsDelivered(p, FALSE) \/ MarkMessageAsRead(p, FALSE)
       \/ MarkAllRead(p, FALSE)
       \/ MessageSteps(p)

SpecMsgSeq == Init /\ [][NextMsgSeq]_vars

\* follow requests of concurrent tasks
NextFollow ==
  \E p \in Procs :
    \/ RouteFollow(p, TRUE) \/ RouteUnfollow(p, TRUE)
    \/ FollowUser(p, TRUE) \/ UnfollowUser(p, TRUE) \/ BulkFollowUsers(p, TRUE)
    \/ FollowSteps(p)

SpecFollow == Init /\ [][NextFollow]_vars

\* follow requests executed one after another
NextFollowSeq ==
  \E p \in Procs :
    \/ RouteFollow(p, FALSE) \/ RouteUnfollow(p, FALSE)
    \/ FollowUser(p, FALSE) \/ UnfollowUser(p, FALSE) \/ BulkFollowUsers(p, FALSE)
    \/ FollowSteps(p)

SpecFollowSeq == Init /\ [][NextFollowSeq]_vars

\* requests that fail: the async wrapper, the error middleware, the auth controller
NextErr ==
  \/ HandlerResolves \/ HandlerRejects \/ AsyncHandlerCatch
  \/ NotFoundHandler \/ ValidationMiddlewareNext \/ ErrorHandler
  \/ AuthRequest \/ AuthTryBody \/ AuthLocalCatch
  \/ ErrFinish

SpecErr == InitWith(Envs) /\ [][NextErr]_vars

\* calls of the response helpers and of the error middleware's senders, one
\* per request
NextResp ==
  \/ CallSuccess \/ CallCreated \/ CallNoContent \/ CallPaginated
  \/ CallError \/ CallCustom \/ CallHealth \/ CallErrorMiddleware
  \/ ResponseSent

SpecResp == InitWith(Envs) /\ [][NextResp]_vars

\* moderation requests of concurrent tasks
NextMod ==
  \E p \in Procs :
    \/ RouteCreateFlag(p, TRUE) \/ ReportContent(p, TRUE)
    \/ RouteFlagStatus(p, TRUE) \/ UpdateModerationFlag(p, TRUE)
    \/ RouteDeleteFlag(p, TRUE)
    \/ ModerationSteps(p)

SpecMod == Init /\ [][NextMod]_vars

\* moderation requests executed one after another
NextModSeq ==
  \E p \in Procs :
    \/ RouteCreateFlag(p, FALSE) \/ ReportContent(p, FALSE)
    \/ RouteFlagStatus(p, FALSE) \/ UpdateModerationFlag(p, FALSE)
    \/ RouteDeleteFlag(p, FALSE)
    \/ ModerationSteps(p)

SpecModSeq == Init /\ [][NextModSeq]_vars

\* send requests of concurrent tasks
NextSend ==
  \/ \E p \in Procs : SendMessage(p) \/ RoutePostMessage(p) \/ SendSteps(p)
  \/ Tick

SpecSend == Init /\ [][NextSend]_vars

\* the moderation controller's handlers, executed one after another
AllIdle == \A q \in Procs : pc[q] = "idle"

NextModAdmin ==
  \E p \in Procs :
    \/ AllIdle /\ ReportContent(p, TRUE)
    \/ AllIdle /\ UpdateModerationFlagNotes(p, TRUE, AdminNotes)
    \/ AllIdle /\ DeleteContent(p)
    \/ AllIdle /\ SuspendUser(p)
    \/ ControllerSteps(p)

SpecModAdmin == Init /\ [][NextModAdmin]_vars

\* calls of the validation helpers
NextValid == CallValidateCoordinates \/ ValidationReturned

SpecValid == Init /\ [][NextValid]_vars

(* ======================= claims ======================= *)

\* C1: in every reachable state, concurrent reaction requests included, at most
\* one Reaction row exists for each (postId, userId) pair.
C1_AtMostOneReactionPerPair ==
  \A postId \in PostIds, userId \in Users :
    Cardinality(PairRows(postId, userId)) <= 1

\* A toggle request (the route's or the controller's) that has answered, on a
\* live post, by a user, with a valid type.
ToggleDone(p) ==
  /\ pc[p] = "done"
  /\ req[p].op \in {"routeReact", "toggle"}
  /\ PostStatus(req[p].a) = "live"
  /\ req[p].b \in Users
  /\ req[p].type \in validTypes

\* C3: with toggle requests executed one after another from no reaction:
\* toggle(A) on no reaction leaves exactly the row of type A, toggle(A) on
\* Reacted(A) leaves no row, toggle(B) on Reacted(A) leaves exactly the row of
\* type B, and no state in between holds more than one row for the pair.
C3_ToggleCycle ==
  /\ \A postId \in PostIds, userId \in Users :
       \A r1, r2 \in PairRows(postId, userId) : r1 = r2
  /\ \A p \in Procs :
       ToggleDone(p) =>
         LET want == Row(req[p].a, req[p].b, req[p].type)
             now == PairRows(req[p].a, req[p].b)
         IN /\ req[p].pre = {} => now = {want} /\ req[p].status = 201
            /\ req[p].pre = {want} => now = {} /\ req[p].result = "removed"
            /\ (req[p].pre # {} /\ req[p].pre # {want}) => now = {want}

\* C3 witness: a toggle(LOVE) has answered on a pair that held LIKE, and the
\* pair now holds LOVE alone.
C3_Witness ==
  \E p \in Procs :
    /\ ToggleDone(p)
    /\ req[p].type = "LOVE"
    /\ req[p].pre = {Row(req[p].a, req[p].b, "LIKE")}
    /\ PairRows(req[p].a, req[p].b) = {Row(req[p].a, req[p].b, "LOVE")}

\* C2: for every message and every interleaving of markDelivered, markRead and
\* markAllRead requests under a non-decreasing clock, a non-null readAt
\* implies a non-null deliveredAt with deliveredAt <= readAt.
C2_ReadImpliesDelivered ==
  \A m \in DOMAIN messages :
    messages[m].readAt # NullAt =>
      /\ messages[m].deliveredAt # NullAt
      /\ messages[m].deliveredAt <= messages[m].readAt

\* A follow / unfollow request between two given ids that has answered.
FollowDone(p) ==
  /\ pc[p] = "done"
  /\ req[p].op \in {"routeFollow", "followUser"}
  /\ req[p].a # NoId /\ req[p].b # NoId

UnfollowDone(p) ==
  /\ pc[p] = "done"
  /\ req[p].op \in {"routeUnfollow", "unfollowUser"}
  /\ req[p].a # NoId /\ req[p].b # NoId

\* C8: follow(a,b) issued when a already follows b is answered 409 and leaves
\* the Follow rows unchanged; a follow request changes the rows only by adding
\* the row (a,b) when none existed, answering 201.
C8_DuplicateFollowConflict ==
  \A p \in Procs :
    FollowDone(p) =>
      LET pair == <<req[p].a, req[p].b>>
      IN /\ pair \in req[p].pre => req[p].status = 409 /\ follows = req[p].pre
         /\ follows # req[p].pre =>
              /\ pair \notin req[p].pre
              /\ follows = req[p].pre \cup {pair}
              /\ req[p].status = 201

\* C8 witness: a follow(a,b) issued while a followed b has answered.
C8_Witness ==
  \E p \in Procs :
    /\ FollowDone(p)
    /\ <<req[p].a, req[p].b>> \in req[p].pre
    /\ req[p].status = 409

\* C9: unfollow(a,b) issued when a does not follow b is answered 404 and
\* leaves the Follow rows unchanged; issued when a follows b it deletes the
\* row (a,b) and no other row.
C9_UnfollowNotFound ==
  \A p \in Procs :
    UnfollowDone(p) =>
      LET pair == <<req[p].a, req[p].b>>
      IN /\ pair \notin req[p].pre => req[p].status = 404 /\ follows = req[p].pre
         /\ pair \in req[p].pre =>
              /\ follows = req[p].pre \ {pair}
              /\ req[p].status \in {200, 204}

\* C9 witness: an unfollow(a,b) issued while a did not follow b has answered,
\* other Follow rows being present.
C9_Witness ==
  \E p \in Procs :
    /\ UnfollowDone(p)
    /\ <<req[p].a, req[p].b>> \notin req[p].pre
    /\ req[p].pre # {}
    /\ req[p].status = 404

\* C10: follow(a,a) is answered 400 before any lookup, whether or not user a
\* exists, and no Follow row has followerId equal to followeeId, bulk follow
\* included.
C10_NoSelfFollow ==
  /\ \A f \in follows : f[1] # f[2]
  /\ \A p \in Procs :
       (req[p].op \in {"routeFollow", "followUser"} /\ req[p].a = req[p].b) =>
         pc[p] = "done" /\ req[p].status = 400

\* C10 witness: a bulk follow whose list named the follower has created rows.
C10_Witness ==
  \E p \in Procs :
    /\ pc[p] = "done"
    /\ req[p].op = "bulkFollow"
    /\ req[p].a \in Range(req[p].ids)
    /\ req[p].status = 201
    /\ follows # req[p].pre

\* C4: the error transformer is total: for every input value it returns a
\* taxonomy error and never throws.
C4_TransformErrorTotal ==
  err.transformed => ~err.tax.threw /\ err.tax.class # "TypeError"

\* An unexpected exception: an object that is no taxonomy error and matches no
\* storage, provider or validation rule, carrying a message.
Unexpected(e) ==
  /\ e.kind = "object"
  /\ e.code = NoCode /\ e.status = NoStatus /\ ~e.clerkError /\ e.http_code = NoStatus
  /\ ~e.isJoi /\ e.name = "Error"
  /\ e.message # Absent

\* C5: in production an unexpected exception is classified non-operational and
\* answered with a generic message and code INTERNAL_ERROR; its own message is
\* not in the response (so the response does not depend on that message).
C5_UnexpectedErrorHidden ==
  (env = "production" /\ err.pc = "end" /\ err.handler \in {"wrapped", "middleware"}
     /\ Unexpected(err.raw)) =>
    /\ err.resp.status = 500
    /\ err.resp.code = "INTERNAL_ERROR"
    /\ err.resp.message # err.raw.message
    /\ ~err.tax.isOperational

\* C6: for a wrapped handler, a resolved promise never takes the error path; a
\* rejection with any value ends with next called exactly once with a
\* taxonomy error; no request ends with an unhandled rejection or with
\* neither a response nor a routed error.
C6_WrapperRoutesEveryRejection ==
  (err.pc = "end" /\ err.handler = "wrapped") =>
    /\ ~err.unhandled
    /\ err.resp.kind # "none"
    /\ err.resp.kind = "data" => err.calls = 0
    /\ err.resp.kind = "error" =>
         err.calls = 1 /\ err.arg.kind = "APIError" /\ ~err.arg.api.threw

\* C7: a taxonomy error thrown inside an auth request handler reaches the
\* client with that error's own status and code (404, 409, 400), never as a
\* route-local 500.
C7_ThrownTaxonomyErrorKeepsStatus ==
  (err.pc = "end" /\ err.handler \in AuthHandlers /\ err.raw.kind = "APIError") =>
    /\ err.resp.status = err.raw.api.statusCode
    /\ err.resp.code = err.raw.api.code

\* C11: in every reachable state, concurrent report requests included, at most
\* one ModerationFlag row exists per (reporterId, entityType, entityId).
C11_AtMostOneFlagPerReporter ==
  \A f, g \in flags :
    (f.reporterId = g.reporterId /\ f.entityType = g.entityType
       /\ f.entityId = g.entityId) => f = g

\* A report (the route's or the controller's) that has answered, naming a
\* reporter, an entity id and one of the entity types.
ReportDone(p) ==
  /\ pc[p] = "done"
  /\ req[p].op \in {"routeFlag", "reportContent"}
  /\ req[p].a # NoId /\ req[p].b # NoId
  /\ req[p].type \in validEntityTypes

\* the handler's own entity lookup finds the reported entity
HandlerFindsEntity(p) ==
  IF req[p].op = "routeFlag"
    THEN EntityStatus(req[p].type, req[p].a) # "missing"
    ELSE EntityStatus(req[p].type, req[p].a) = "live"

\* C12 as stated: a report issued when the reporter already has a flag on the
\* entity, whatever that flag's status, is answered 409 and creates no row.
C12_DuplicateReportConflict ==
  \A p \in Procs :
    (ReportDone(p) /\ req[p].pre # {}) =>
      /\ req[p].status = 409
      /\ ReporterFlags(req[p].type, req[p].a, req[p].b) = req[p].pre

\* C12 amended: a report issued when the reporter already has a flag on the
\* entity, whatever that flag's status, creates no row; it is answered 409
\* when the handler's entity lookup finds the entity, and 404 by the existence
\* check, which comes first, when it does not.
C12_DuplicateReportRejected ==
  \A p \in Procs :
    (ReportDone(p) /\ req[p].pre # {}) =>
      /\ ReporterFlags(req[p].type, req[p].a, req[p].b) = req[p].pre
      /\ HandlerFindsEntity(p) => req[p].status = 409
      /\ ~HandlerFindsEntity(p) => req[p].status = 404

\* C12 witness: a report has been answered 409 while the reporter's earlier
\* flag on the entity had left PENDING.
C12_Witness ==
  \E p \in Procs :
    /\ ReportDone(p)
    /\ \E f \in req[p].pre : f.status \in {"VALID", "INVALID"}
    /\ req[p].status = 409

\* the reporter of flag f authored the post or comment f targets, or is the
\* user f targets
SelfReport(entityType, entityId, reporterId) ==
  \/ EntityAuthor(entityType, entityId) = reporterId
  \/ entityType = "USER" /\ entityId = reporterId

\* C13: a report whose reporter is the author of the reported content is
\* answered 400 and creates no flag: no ModerationFlag has a reporterId equal
\* to the authorId of the post or comment it targets, or to the id of the user
\* it targets.
C13_NoSelfReport ==
  /\ \A f \in flags : ~SelfReport(f.entityType, f.entityId, f.reporterId)
  /\ \A p \in Procs :
       (ReportDone(p) /\ HandlerFindsEntity(p)
          /\ SelfReport(req[p].type, req[p].a, req[p].b)) => req[p].status = 400

\* A request on one message (delivered or read, the route's or the
\* controller's) that has answered, the message having a row.
MsgDone(p, ops) ==
  /\ pc[p] = "done"
  /\ req[p].op \in ops
  /\ req[p].b # NoId
  /\ req[p].a \in DOMAIN messages

\* C14: markDelivered is idempotent: a call on a message whose deliveredAt is
\* already set, by any user at any later time, leaves deliveredAt as it was.
C14_MarkDeliveredIdempotent ==
  \A p \in Procs :
    (MsgDone(p, {"routeDelivered", "markDelivered"})
       /\ req[p].pre[req[p].a].deliveredAt # NullAt) =>
      messages[req[p].a].deliveredAt = req[p].pre[req[p].a].deliveredAt

\* C15: no markDelivered, markRead or markAllRead request whose acting user is
\* the message's sender changes that message's deliveredAt or readAt, and
\* markRead by the sender on an unread message is answered as a no-op, not as
\* an error, readAt staying null.
C15_SenderNeverMarksOwn ==
  \A p \in Procs :
    /\ (MsgDone(p, {"routeDelivered", "markDelivered", "routeRead", "markRead"})
          /\ messages[req[p].a].senderId = req[p].b) =>
         messages[req[p].a] = req[p].pre[req[p].a]
    /\ (pc[p] = "done" /\ req[p].op \in {"routeReadAll", "markAllRead"}) =>
         \A m \in DOMAIN messages :
           messages[m].senderId = req[p].b => messages[m] = req[p].pre[m]
    /\ (MsgDone(p, {"routeRead", "markRead"})
          /\ messages[req[p].a].senderId = req[p].b
          /\ req[p].pre[req[p].a].readAt = NullAt) =>
         /\ req[p].status = 200 /\ req[p].result = "noop"
         /\ messages[req[p].a].readAt = NullAt

\* C16: readAt is write-once: once readAt is non-null, no step of a markRead or
\* markAllRead request, concurrent requests included, changes its value.
C16_ReadAtWriteOnce ==
  [][\A m \in DOMAIN messages :
       messages[m].readAt # NullAt => messages'[m].readAt = messages[m].readAt]_vars

\* the messages markAllRead(chatId, userId) is to mark, in the table as the
\* request found it
UnreadOfOthers(p) ==
  {m \in DOMAIN req[p].pre :
     /\ req[p].pre[m].chatId = req[p].a
     /\ req[p].pre[m].senderId # req[p].b
     /\ req[p].pre[m].readAt = NullAt}

\* C17: markAllRead(chat, user) sets readAt on exactly the messages of the chat
\* not sent by the user and not yet read, returns their number, sets
\* deliveredAt only on those of them whose deliveredAt was null, and leaves
\* every other message and every already-set deliveredAt unchanged.
C17_MarkAllReadFrame ==
  \A p \in Procs :
    (pc[p] = "done" /\ req[p].op \in {"routeReadAll", "markAllRead"}
       /\ req[p].status = 200) =>
      /\ req[p].ids = <<Cardinality(UnreadOfOthers(p))>>
      /\ \A m \in DOMAIN messages :
           IF m \in UnreadOfOthers(p)
             THEN /\ messages[m].readAt = req[p].now
                  /\ messages[m].deliveredAt =
                       IF req[p].pre[m].deliveredAt # NullAt
                         THEN req[p].pre[m].deliveredAt ELSE req[p].now
             ELSE messages[m] = req[p].pre[m]

\* A reaction request of one of the given handlers that has answered, by a
\* user, with a valid type.
ReactDone(p, ops) ==
  /\ pc[p] = "done"
  /\ req[p].op \in ops
  /\ req[p].a # NoId
  /\ req[p].b \in Users
  /\ req[p].type \in validTypes

\* C18: a reaction toggle on a missing or soft-deleted post is answered 404 and
\* one on an expired post 410; neither creates, changes or deletes a Reaction
\* row, so no reaction is ever on a soft-deleted or expired post.
C18_NoReactionOnDeadPost ==
  /\ \A r \in reactions : PostStatus(r.postId) = "live"
  /\ \A p \in Procs :
       ReactDone(p, {"routeReact", "toggle"}) =>
         /\ PostStatus(req[p].a) \in {"missing", "deleted"} =>
              req[p].status = 404 /\ PairRows(req[p].a, req[p].b) = req[p].pre
         /\ PostStatus(req[p].a) = "expired" =>
              req[p].status = 410 /\ PairRows(req[p].a, req[p].b) = req[p].pre

\* C19: a POST reaction request of type T by user U on post P with no prior
\* reaction is answered 201 and leaves exactly the row (P, U, T); the same
\* request issued again is answered with a success-class "removed" result and
\* leaves no row for (P, U).
C19_PostReactionTwice ==
  \A p \in Procs :
    (ReactDone(p, {"routeReact", "add"}) /\ PostStatus(req[p].a) = "live") =>
      LET row == Row(req[p].a, req[p].b, req[p].type)
      IN /\ req[p].pre = {} =>
              req[p].status = 201 /\ PairRows(req[p].a, req[p].b) = {row}
         /\ req[p].pre = {row} =>
              /\ req[p].status \in 200..299
              /\ req[p].result = "removed"
              /\ PairRows(req[p].a, req[p].b) = {}

\* C20: every response rendered by the response helpers and the error
\* middleware contains exactly one of the fields data and error.
C20_ExactlyOneOfDataAndError ==
  rendered.helper # "none" =>
    ("data" \in rendered.fields) # ("error" \in rendered.fields)

\* C21: the error transformer maps P2002 to Conflict 409 with details.field
\* taken from the constraint metadata, P2025 to NotFound 404, P2003 to
\* Validation 400 with the offending field, and P2020, P2021, P2022 and P2024
\* each to Database 500.
C21_PrismaCodeMapping ==
  (err.transformed /\ err.raw.kind = "object" /\ err.raw.code \in PrismaCodes) =>
    LET code == err.raw.code
        meta == err.raw.meta
        e == err.tax
    IN /\ ~e.threw
       /\ code = "P2002" =>
            /\ e.class = "ConflictError" /\ e.statusCode = 409
            /\ e.details.present
            /\ meta # <<>> => e.details.field = Join(meta)
       /\ code = "P2025" => e.class = "NotFoundError" /\ e.statusCode = 404
       /\ code = "P2003" =>
            /\ e.class = "ValidationError" /\ e.statusCode = 400
            /\ e.details.present /\ e.details.field = meta
       /\ code \in {"P2020", "P2021", "P2022", "P2024"} =>
            e.class = "DatabaseError" /\ e.statusCode = 500

\* C29: every response the error middleware emits has a status in 400..599
\* and a non-null code, for every raw error, provider-style errors carrying
\* their own status included.
C29_ErrorResponseStatusAndCode ==
  (err.pc = "end" /\ err.handler \in {"wrapped", "middleware", "notFound"}
     /\ err.resp.kind = "error") =>
    /\ err.resp.status \in 400..599
    /\ err.resp.code # NoCode

(* C22: a newly reported flag starts in PENDING. A status update naming an
   existing flag and a status s of PENDING, VALID, INVALID answers 200 and
   sets that flag's status to s, whatever its status was; any other s is
   rejected with a 4xx answer and the flags are unchanged; a valid s naming no flag
   answers 404. *)
StatusDone(p) == pc[p] = "done" /\ req[p].op \in {"routeFlagStatus", "updateFlag"}

WithStatus(rows, id, status) ==
  {IF f.id = id THEN [f EXCEPT !.status = status] ELSE f : f \in rows}

NewFlagsPending ==
  \A p \in Procs :
    (ReportDone(p) /\ req[p].status = 201) =>
      \E f \in flags : f.id = flagSeq /\ f.status = "PENDING"

StatusApplied(p, s) ==
  IF \E f \in req[p].pre : f.id = req[p].a
    THEN req[p].status = 200 /\ flags = WithStatus(req[p].pre, req[p].a, s)
    ELSE req[p].status = 404 /\ flags = req[p].pre

StatusRejected(p) == req[p].status \in 400..499 /\ flags = req[p].pre

C22_StatusUpdateExact ==
  /\ NewFlagsPending
  /\ \A p \in Procs :
       StatusDone(p) =>
         IF req[p].type \in validStatuses THEN StatusApplied(p, req[p].type)
         ELSE StatusRejected(p)

(* C22, amended: as above, except that updateModerationFlag compares the
   status ignoring case: a lower-case spelling of one of the three statuses is
   accepted and stored in upper case. *)
C22_StatusUpdate ==
  /\ NewFlagsPending
  /\ \A p \in Procs :
       StatusDone(p) =>
         LET s == IF req[p].op = "updateFlag" /\ req[p].type # NoId
                    THEN toUpperCase(req[p].type) ELSE req[p].type
         IN IF s \in validStatuses THEN StatusApplied(p, s) ELSE StatusRejected(p)

\* a flag that was VALID is set back to PENDING
C22_Witness ==
  \E p \in Procs :
    /\ StatusDone(p) /\ req[p].status = 200 /\ req[p].type = "PENDING"
    /\ \E f \in req[p].pre : f.id = req[p].a /\ f.status = "VALID"
    /\ \E f \in flags : f.id = req[p].a /\ f.status = "PENDING"

(* C24: for total >= 0, limit >= 1 and page >= 1 the pagination helper answers
   pages = ceil(total / limit), the least number of pages of limit entries
   that hold total entries, hasNext = (page < pages) and hasPrev = (page > 1);
   total 95 with limit 20 gives 5 pages, page 5 has no next page and page 1 no
   previous one. *)
C24_Pagination ==
  rendered.helper = "paginated" =>
    LET g == rendered.pagination
    IN /\ g.pages \in 0..g.total
       /\ g.pages * g.limit >= g.total
       /\ (g.pages - 1) * g.limit < g.total
       /\ g.hasNext = (g.page < g.pages)
       /\ g.hasPrev = (g.page > 1)
       /\ (g.total = 95 /\ g.limit = 20) =>
            /\ g.pages = 5
            /\ g.page = 5 => ~g.hasNext
            /\ g.page = 1 => ~g.hasPrev

C24_Witness ==
  /\ rendered.helper = "paginated"
  /\ rendered.pagination.total = 95 /\ rendered.pagination.limit = 20
  /\ rendered.pagination.page = 5 /\ rendered.pagination.pages = 5
  /\ ~rendered.pagination.hasNext /\ rendered.pagination.hasPrev

(* C25: the coordinate check accepts exactly the latitudes of [-90, 90] and the
   longitudes of [-180, 180): longitude 180 is rejected with a Validation
   error (400), longitude -180 and latitudes -90 and 90 are accepted. *)
C25_CoordinateRanges ==
  checked.helper = "validateCoordinates" =>
    LET latitude == checked.input[1]
        longitude == checked.input[2]
        inRange == /\ latitude.kind # "junk" /\ longitude.kind # "junk"
                   /\ latitude.v >= -900 /\ latitude.v <= 900
                   /\ longitude.v >= -1800 /\ longitude.v < 1800
    IN /\ checked.threw = ~inRange
       /\ checked.threw => checked.class = "ValidationError" /\ checked.statusCode = 400

(* C26: when follow requests for the same pair run concurrently, the request
   whose create loses against the unique pair is answered 409 Conflict: no
   follow request ends with 500, and a request that did not create the row it
   finds is answered 409. *)
C26_ConcurrentFollowConflict ==
  \A p \in Procs :
    (pc[p] = "done" /\ req[p].op = "routeFollow") =>
      /\ req[p].status # 500
      /\ (req[p].result = "error" /\ <<req[p].a, req[p].b>> \in follows
            /\ req[p].a \in Users /\ req[p].b \in Users /\ req[p].a # req[p].b)
           => req[p].status = 409

(* C27: a reaction request that ends in an error response leaves the user's
   reaction on the post as it was before the request: a request that has
   deleted the reaction it found never ends with an error, so the create step
   that follows the delete does not fail. *)
C27_ErrorLeavesReaction ==
  [][\A p \in Procs :
       (pc[p] = "rp_create" /\ req[p].found # NoRow /\ pc'[p] = "done")
         => req'[p].status < 400]_vars

(* C28: moderator actions on a flag change only its status: no step changes a
   flag's reporterId, entityType, entityId or reason, and the flag updates of
   deleteContent and suspendUser change the status only of flags that are
   PENDING and target the entity of the request. *)
FlagFrameKept ==
  \A f \in flags : \A g \in flags' :
    f.id = g.id =>
      /\ g.reporterId = f.reporterId /\ g.entityType = f.entityType
      /\ g.entityId = f.entityId /\ g.reason = f.reason

ResolveScope ==
  \A p \in Procs :
    (pc[p] \in {"dc_flags", "su_flags"} /\ pc'[p] = "done") =>
      \A f \in flags : \A g \in flags' :
        (f.id = g.id /\ g.status # f.status) =>
          /\ f.status = "PENDING"
          /\ f.entityId = req[p].a
          /\ f.entityType = IF pc[p] = "su_flags" THEN "USER" ELSE toUpperCase(req[p].type)

C28_ModeratorChangesStatusOnly == [][FlagFrameKept /\ ResolveScope]_vars

(* C23: sending a message is all-or-nothing: the message row and the chat's
   lastMessageAt written by its transaction become visible in one step, a
   request answered with an error leaves both unchanged, and lastMessageAt
   changes in no other step. *)
C23_SendAllOrNothing ==
  [][/\ sent' # sent =>
          \E p \in Procs : \E m \in sent' \ sent :
            /\ req[p].op \in SendOps /\ pc'[p] = "done" /\ req'[p].status = 201
            /\ sent' = sent \cup {m}
            /\ m.chatId = req[p].a /\ m.senderId = req[p].b
            /\ chats' = [chats EXCEPT ![m.chatId].lastMessageAt = req[p].now]
     /\ chats' # chats => sent' # sent
     /\ \A p \in Procs :
          (req'[p].op \in SendOps /\ pc[p] # "done" /\ pc'[p] = "done"
             /\ req'[p].status >= 400)
            => (sent' = sent /\ chats' = chats)]_vars

\* a transaction of sendMessage has committed: its message is there and
\* lastMessageAt is the time it wrote
C23_Witness ==
  \E p \in Procs :
    /\ pc[p] = "done" /\ req[p].op = "sendMessage" /\ req[p].status = 201
    /\ \E m \in sent : m.senderId = req[p].b /\ m.createdAt = req[p].now
    /\ chats[req[p].a].lastMessageAt = req[p].now

(* C30: when no send request is in flight, the chat's lastMessageAt is at
   least the createdAt of every message of the chat. *)
C30_LastMessageAtNotOlder ==
  (\A p \in Procs : req[p].op \in SendOps => pc[p] = "done") =>
    \A m \in sent : chats[m.chatId].lastMessageAt >= m.createdAt

====
